---- MODULE Spec2Model ----
(***************************************************************************)
(* TrancheReady risk engine: scoreClient, the three pattern detectors and  *)
(* the monitoring-case builder of the /ingest handler.                     *)
(*                                                                         *)
(* Representation of JavaScript values                                     *)
(*   a value is a record [k, s, n]: k is its kind ("undef", "str", "num",  *)
(*   "nan"), s the text of a string, n the value of a number.              *)
(*   A string is a sequence of tokens; a token is an indivisible piece of  *)
(*   text (a word, a separator, a group of digits).  Case conversion works *)
(*   token by token through the table Words, substring search looks for a  *)
(*   token, parseFloat reads the leading digit groups.                     *)
(*   Amounts are whole numbers.                                            *)
(*   An instant (a Date) is a number of ticks since 2022-01-01T00:00Z,     *)
(*   TicksPerDay ticks to the day; tzOffset is the local zone's offset     *)
(*   from UTC in ticks, which getFullYear and getMonth apply.              *)
(***************************************************************************)
EXTENDS Integers, Sequences, FiniteSets, TLC

VARIABLES client, txList, now, tzOffset, pc,
          score, reasons, band, highExp, medExp, struct, corr, large,
          s, hr, ld, cases,
          route, clock, clientsRaw, txRaw, clients, tx, by, scored, idx, hpc

vars == <<client, txList, now, tzOffset, pc,
          score, reasons, band, highExp, medExp, struct, corr, large,
          s, hr, ld, cases,
          route, clock, clientsRaw, txRaw, clients, tx, by, scored, idx, hpc>>

\* ---------------------------------------------------------------- bounds
\* longest transaction list of one client
MaxTx == 4
\* resolution of an instant: ticks per day
TicksPerDay == 2

\* ---------------------------------------------------------------- constants
HIGH_RISK_COUNTRIES == {"RU", "IR"}
MED_RISK_COUNTRIES == {"CN", "HK", "AE", "IN"}
HIGH_RISK_CORRIDORS == {"RU", "IR", "CN", "HK", "AE", "IN"}
CASH_STRUCTURING_MIN == 9600
CASH_STRUCTURING_MAX == 10000
LARGE_DOMESTIC == 100000
LOOKBACK_MONTHS == 18
\* one day in the unit of an instant
MS_PER_DAY == TicksPerDay

\* ---------------------------------------------------------------- values
Undef == [k |-> "undef", s |-> <<>>, n |-> 0]
NaN == [k |-> "nan", s |-> <<>>, n |-> 0]
Str(t) == [k |-> "str", s |-> t, n |-> 0]
Num(x) == [k |-> "num", s |-> <<>>, n |-> x]

\* JavaScript truthiness of a value
Truthy(v) == \/ v.k = "str" /\ v.s # <<>>
             \/ v.k = "num" /\ v.n # 0

\* a || b
OrElse(a, b) == IF Truthy(a) THEN a ELSE b

\* (x ?? "").toString() for a missing or string value
TextOf(x) == IF x.k = "str" THEN x.s ELSE <<>>

\* the spellings of the column headers
HeaderWords ==
  { <<"ClientID", "clientid", "CLIENTID">>, <<"Client_Id", "client_id", "CLIENT_ID">>,
    <<"Id", "id", "ID">>, <<"Name", "name", "NAME">>,
    <<"EntityType", "entitytype", "ENTITYTYPE">>, <<"Type", "type", "TYPE">>,
    <<"Country", "country", "COUNTRY">>, <<"State", "state", "STATE">>,
    <<"Suburb", "suburb", "SUBURB">>, <<"Postcode", "postcode", "POSTCODE">>,
    <<"ResidencyStatus", "residencystatus", "RESIDENCYSTATUS">>,
    <<"Pep", "pep", "PEP">>, <<"KYCStatus", "kycstatus", "KYCSTATUS">>,
    <<"OnboardDate", "onboarddate", "ONBOARDDATE">>,
    <<"LastKYCReview", "lastkycreview", "LASTKYCREVIEW">>,
    <<"DeliveryChannel", "deliverychannel", "DELIVERYCHANNEL">>,
    <<"Channel", "channel", "CHANNEL">>,
    <<"ServicesUsed", "servicesused", "SERVICESUSED">>,
    <<"Services", "services", "SERVICES">>,
    <<"Industry", "industry", "INDUSTRY">>,
    <<"AnnualTurnoverAUD", "annualturnoveraud", "ANNUALTURNOVERAUD">>,
    <<"SourceOfFunds", "sourceoffunds", "SOURCEOFFUNDS">>,
    <<"SanctionsMatch", "sanctionsmatch", "SANCTIONSMATCH">>,
    <<"RiskCountryExposure", "riskcountryexposure", "RISKCOUNTRYEXPOSURE">>,
    <<"TxnID", "txnid", "TXNID">>, <<"ClientName", "clientname", "CLIENTNAME">>,
    <<"Client", "client", "CLIENT">>, <<"Client_Name", "client_name", "CLIENT_NAME">>,
    <<"Date", "date", "DATE">>, <<"Txn_Date", "txn_date", "TXN_DATE">>,
    <<"Timestamp", "timestamp", "TIMESTAMP">>,
    <<"Amount", "amount", "AMOUNT">>, <<"Aud_Amount", "aud_amount", "AUD_AMOUNT">>,
    <<"Value", "value", "VALUE">>, <<"Currency", "currency", "CURRENCY">>,
    <<"Method", "method", "METHOD">>, <<"Location", "location", "LOCATION">>,
    <<"CounterpartyName", "counterpartyname", "COUNTERPARTYNAME">>,
    <<"CounterpartyCountry", "counterpartycountry", "COUNTERPARTYCOUNTRY">>,
    <<"Counterparty_Country", "counterparty_country", "COUNTERPARTY_COUNTRY">>,
    <<"Notes", "notes", "NOTES">>, <<"Segment", "segment", "SEGMENT">> }

\* mixed-case spelling, lower-case spelling, upper-case spelling
Words ==
  { <<"y", "y", "Y">>, <<"Yes", "yes", "YES">>, <<"True", "true", "TRUE">>,
    <<"No", "no", "NO">>, <<"n", "n", "N">>,
    <<"Non-Resident", "non-resident", "NON-RESIDENT">>,
    <<"Resident", "resident", "RESIDENT">>,
    <<"Remittance", "remittance", "REMITTANCE">>,
    <<"Property", "property", "PROPERTY">>,
    <<"Mixed", "mixed", "MIXED">>, <<"Broker", "broker", "BROKER">>,
    <<"In-Branch", "in-branch", "IN-BRANCH">>,
    <<"Online", "online", "ONLINE">>,
    <<"HighRisk:", "highrisk:", "HIGHRISK:">>,
    <<"MedRisk:", "medrisk:", "MEDRISK:">>,
    <<"Ru", "ru", "RU">>, <<"Ir", "ir", "IR">>, <<"Cn", "cn", "CN">>,
    <<"Hk", "hk", "HK">>, <<"Au", "au", "AU">>, <<"Nz", "nz", "NZ">>,
    <<"Enhanced", "enhanced", "ENHANCED">>,
    <<"Standard", "standard", "STANDARD">>,
    <<"Cash Deposit", "cash deposit", "CASH DEPOSIT">>,
    <<"International", "international", "INTERNATIONAL">>,
    <<"Domestic", "domestic", "DOMESTIC">>,
    <<"Wire", "wire", "WIRE">> } \cup HeaderWords

WordOf(t) == CHOOSE w \in Words : t \in {w[1], w[2], w[3]}
IsWord(t) == \E w \in Words : t \in {w[1], w[2], w[3]}
LowerTok(t) == IF IsWord(t) THEN WordOf(t)[2] ELSE t
UpperTok(t) == IF IsWord(t) THEN WordOf(t)[3] ELSE t

toLowerCase(t) == [i \in DOMAIN t |-> LowerTok(t[i])]
toUpperCase(t) == [i \in DOMAIN t |-> UpperTok(t[i])]

RECURSIVE trimStart(_)
trimStart(t) == IF t # <<>> /\ Head(t) = " " THEN trimStart(Tail(t)) ELSE t
RECURSIVE trimEnd(_)
trimEnd(t) ==
  IF t # <<>> /\ t[Len(t)] = " " THEN trimEnd(SubSeq(t, 1, Len(t) - 1)) ELSE t
trim(t) == trimEnd(trimStart(t))

\* t.includes(word)
includes(t, word) == \E i \in DOMAIN t : t[i] = word

\* t.replace(/x/g, y) for a one-token x
replaceAll(t, x, y) == [i \in DOMAIN t |-> IF t[i] = x THEN y ELSE t[i]]

\* t with the tokens of drop removed: t.replace(/[...]/g, "")
RECURSIVE strip(_, _)
strip(t, drop) ==
  IF t = <<>> THEN <<>>
  ELSE IF Head(t) \in drop THEN strip(Tail(t), drop)
  ELSE <<Head(t)>> \o strip(Tail(t), drop)

\* t.split(sep): the pieces between the separators, empty pieces included
RECURSIVE splitFrom(_, _, _)
splitFrom(t, sep, piece) ==
  IF t = <<>> THEN <<piece>>
  ELSE IF Head(t) = sep THEN <<piece>> \o splitFrom(Tail(t), sep, <<>>)
  ELSE splitFrom(Tail(t), sep, Append(piece, Head(t)))
split(t, sep) == splitFrom(t, sep, <<>>)

toUpper(x) == toUpperCase(trim(TextOf(x)))
toBoolYN(x) == toUpper(x) \in {<<"Y">>, <<"YES">>, <<"TRUE">>}

\* digit groups: token -> <<number of digits, value>>
Digits ==
  ("9" :> <<1, 9>>) @@ ("600" :> <<3, 600>>) @@ ("700" :> <<3, 700>>) @@
  ("000" :> <<3, 0>>) @@ ("599" :> <<3, 599>>) @@ ("999" :> <<3, 999>>) @@
  ("10" :> <<2, 10>>) @@ ("20" :> <<2, 20>>) @@ ("25" :> <<2, 25>>) @@
  ("5" :> <<1, 5>>) @@ ("19" :> <<2, 19>>) @@ ("100" :> <<3, 100>>) @@
  ("99" :> <<2, 99>>) @@
  ("9600" :> <<4, 9600>>) @@ ("9700" :> <<4, 9700>>) @@
  ("10000" :> <<5, 10000>>) @@ ("5000" :> <<4, 5000>>) @@
  ("25000" :> <<5, 25000>>) @@ ("100000" :> <<6, 100000>>) @@
  ("2022" :> <<4, 2022>>) @@ ("2023" :> <<4, 2023>>) @@
  ("2024" :> <<4, 2024>>) @@ ("2025" :> <<4, 2025>>) @@
  ("01" :> <<2, 1>>) @@ ("02" :> <<2, 2>>) @@ ("03" :> <<2, 3>>) @@
  ("04" :> <<2, 4>>) @@ ("05" :> <<2, 5>>) @@ ("06" :> <<2, 6>>) @@
  ("07" :> <<2, 7>>) @@ ("08" :> <<2, 8>>) @@ ("09" :> <<2, 9>>) @@
  ("11" :> <<2, 11>>) @@ ("12" :> <<2, 12>>) @@ ("13" :> <<2, 13>>) @@
  ("14" :> <<2, 14>>) @@ ("15" :> <<2, 15>>) @@ ("16" :> <<2, 16>>) @@
  ("23" :> <<2, 23>>) @@ ("24" :> <<2, 24>>) @@ ("30" :> <<2, 30>>) @@
  ("31" :> <<2, 31>>)

IsDigits(t) == t \in DOMAIN Digits

RECURSIVE Pow10(_)
Pow10(e) == IF e = 0 THEN 1 ELSE 10 * Pow10(e - 1)

\* parseFloat: the number written by the leading digit groups, NaN if none
RECURSIVE parseDigits(_, _, _)
parseDigits(t, any, acc) ==
  IF t # <<>> /\ IsDigits(Head(t))
  THEN parseDigits(Tail(t), TRUE, acc * Pow10(Digits[Head(t)][1]) + Digits[Head(t)][2])
  ELSE IF any THEN Num(acc) ELSE NaN
parseFloat(t) == parseDigits(trimStart(t), FALSE, 0)

toNum(x) ==
  IF x.k = "undef" THEN NaN
  ELSE IF x.k \in {"num", "nan"} THEN x
  ELSE parseFloat(strip(x.s, {",", " "}))

\* a comparison that NaN passes
NumGEOrNaN(a, b) == a.k # "num" \/ a.n >= b

\* a >= b and a < b on numbers: false when a is NaN
NumGE(a, b) == a.k = "num" /\ a.n >= b
NumLT(a, b) == a.k = "num" /\ a.n < b

\* a.k = "num" /\ a.n <= b, and a > b where Infinity exceeds every number
NumLE(a, b) == a.k = "num" /\ a.n <= b
NumGT(a, b) == a.k = "inf" \/ (a.k = "num" /\ a.n > b)
Infinity == [k |-> "inf", s |-> <<>>, n |-> 0]

\* ---------------------------------------------------------------- dates
\* the calendar of the years 2022..2025; months are indexed from January 2022
IsLeap(y) == (y % 4 = 0 /\ y % 100 # 0) \/ y % 400 = 0
DaysInMonth(y, m) ==
  IF m = 2 THEN (IF IsLeap(y) THEN 29 ELSE 28)
  ELSE IF m \in {4, 6, 9, 11} THEN 30 ELSE 31
\* days from 2022-01-01 to the first day of year y, and of month m within year y
YearStart(y) == (y - 2022) * 365 + Cardinality({z \in 2022..(y - 1) : IsLeap(z)})
RECURSIVE DaysBefore(_, _)
DaysBefore(y, m) == IF m = 1 THEN 0 ELSE DaysBefore(y, m - 1) + DaysInMonth(y, m - 1)
DayNum(y, m, d) == YearStart(y) + DaysBefore(y, m) + (d - 1)
YearOfDay(day) == CHOOSE y \in 2022..2025 : YearStart(y) <= day /\ day < YearStart(y + 1)
MonthOfDay(day) ==
  LET y == YearOfDay(day)
      rest == day - YearStart(y)
  IN CHOOSE m \in 1..12 : DaysBefore(y, m) <= rest /\ rest < DaysBefore(y, m) + DaysInMonth(y, m)

\* a Date: ok is FALSE for null (an Invalid Date), t is the instant
null == [ok |-> FALSE, t |-> 0]
DateAt(t) == [ok |-> TRUE, t |-> t]
\* the instant of midnight UTC of a calendar day
UTC(y, m, d) == DayNum(y, m, d) * TicksPerDay

\* new Date(text) for a date-only ISO text YYYY-MM-DD, which is read as UTC
IsIsoDate(t) ==
  /\ Len(t) = 5 /\ t[2] = "-" /\ t[4] = "-"
  /\ IsDigits(t[1]) /\ IsDigits(t[3]) /\ IsDigits(t[5])
  /\ Digits[t[1]][1] = 4 /\ Digits[t[3]][1] = 2 /\ Digits[t[5]][1] = 2
  /\ Digits[t[1]][2] \in 2022..2025
  /\ Digits[t[3]][2] \in 1..12
  /\ Digits[t[5]][2] \in 1..DaysInMonth(Digits[t[1]][2], Digits[t[3]][2])
NewDate(t) ==
  IF IsIsoDate(t) THEN DateAt(UTC(Digits[t[1]][2], Digits[t[3]][2], Digits[t[5]][2]))
  ELSE null

parseDate(x) == NewDate(replaceAll(trim(TextOf(x)), "/", "-"))

\* Date.getFullYear and Date.getMonth read the instant in the local zone
LocalDay(t) == (t + tzOffset) \div TicksPerDay
getFullYear(d) == YearOfDay(LocalDay(d.t))
getMonth(d) == MonthOfDay(LocalDay(d.t)) - 1

monthsAgo(a, b) ==
  IF ~a.ok \/ ~b.ok THEN Infinity
  ELSE Num((getFullYear(b) - getFullYear(a)) * 12 + (getMonth(b) - getMonth(a)))

\* ---------------------------------------------------------------- detectors
\* (v || "").toLowerCase() raises a TypeError when v is a truthy number: a
\* number has no method toLowerCase
lowerRaises(v) == Truthy(v) /\ v.k # "str"
\* the first filter of a detector evaluates t.Type of every transaction
typeRaises(list) == \E i \in DOMAIN list : lowerRaises(list[i].Type)

\* (t.Type || "").toLowerCase().includes(word)
typeIncludes(t, word) == includes(toLowerCase(OrElse(t.Type, Str(<<>>)).s), word)

\* Array.prototype.sort((a, b) => a.d - b.d): stable, ascending by instant
RECURSIVE insertByDate(_, _)
insertByDate(sorted, x) ==
  IF sorted = <<>> THEN <<x>>
  ELSE IF x.d.t < Head(sorted).d.t THEN <<x>> \o sorted
  ELSE <<Head(sorted)>> \o insertByDate(Tail(sorted), x)
RECURSIVE sortByDate(_)
sortByDate(list) ==
  IF list = <<>> THEN <<>>
  ELSE insertByDate(sortByDate(SubSeq(list, 1, Len(list) - 1)), list[Len(list)])

\* a filter that lets an amount of exactly CASH_STRUCTURING_MAX through
structCashInclusive(list, at) ==
  LET typed == SelectSeq(list, LAMBDA t : typeIncludes(t, "cash deposit"))
      mapped == [i \in DOMAIN typed |->
                   [d |-> parseDate(typed[i].Date), amt |-> toNum(typed[i].Amount)]]
      kept == SelectSeq(mapped, LAMBDA t :
                /\ t.d.ok
                /\ NumLE(monthsAgo(t.d, at), LOOKBACK_MONTHS)
                /\ NumGE(t.amt, CASH_STRUCTURING_MIN)
                /\ NumLE(t.amt, CASH_STRUCTURING_MAX))
  IN sortByDate(kept)

\* the filtered, sorted list `cash` of detectStructuring
structCash(list, at) ==
  LET typed == SelectSeq(list, LAMBDA t : typeIncludes(t, "cash deposit"))
      mapped == [i \in DOMAIN typed |->
                   [d |-> parseDate(typed[i].Date), amt |-> toNum(typed[i].Amount)]]
      kept == SelectSeq(mapped, LAMBDA t :
                /\ t.d.ok
                /\ NumLE(monthsAgo(t.d, at), LOOKBACK_MONTHS)
                /\ NumGE(t.amt, CASH_STRUCTURING_MIN)
                /\ NumLT(t.amt, CASH_STRUCTURING_MAX))
  IN sortByDate(kept)

\* a detectStructuring that measures the gap from the first deposit of the run
RECURSIVE structRunsFromFirst(_, _, _, _)
structRunsFromFirst(cash, i, run, runs) ==
  IF i > Len(cash) THEN Append(runs, run)
  ELSE IF cash[i].d.t - run[1].d.t <= 7 * MS_PER_DAY
       THEN structRunsFromFirst(cash, i + 1, Append(run, cash[i]), runs)
       ELSE structRunsFromFirst(cash, i + 1, <<cash[i]>>, Append(runs, run))

\* the loop of detectStructuring from index i on: the list of runs
RECURSIVE structRuns(_, _, _, _)
structRuns(cash, i, run, runs) ==
  IF i > Len(cash) THEN Append(runs, run)
  ELSE IF cash[i].d.t - cash[i - 1].d.t <= 7 * MS_PER_DAY
       THEN structRuns(cash, i + 1, Append(run, cash[i]), runs)
       ELSE structRuns(cash, i + 1, <<cash[i]>>, Append(runs, run))

\* Math.max over a non-empty list of numbers
RECURSIVE MathMax(_)
MathMax(xs) ==
  IF Len(xs) = 1 THEN xs[1]
  ELSE IF xs[1] >= MathMax(Tail(xs)) THEN xs[1] ELSE MathMax(Tail(xs))

\* ev is FALSE when the result carries no maxRun and no count
detectStructuring(list, at) ==
  LET cash == structCash(list, at)
  IN IF Len(cash) < 4 THEN [hit |-> FALSE, ev |-> FALSE, maxRun |-> 0, count |-> 0]
     ELSE LET runs == structRuns(cash, 2, <<cash[1]>>, <<>>)
              maxRun == MathMax([i \in DOMAIN runs |-> Len(runs[i])])
          IN [hit |-> maxRun >= 4, ev |-> TRUE, maxRun |-> maxRun, count |-> Len(cash)]

\* the list `risky` of detectCorridors
corridorRisky(list, at) ==
  LET typed == SelectSeq(list, LAMBDA t : typeIncludes(t, "international"))
      mapped == [i \in DOMAIN typed |->
                   [country |-> toUpper(typed[i].CounterpartyCountry),
                    amt |-> toNum(typed[i].Amount),
                    d |-> parseDate(typed[i].Date)]]
      intl == SelectSeq(mapped, LAMBDA t :
                t.d.ok /\ NumLE(monthsAgo(t.d, at), LOOKBACK_MONTHS))
  IN SelectSeq(intl, LAMBDA t : Len(t.country) = 1 /\ t.country[1] \in HIGH_RISK_CORRIDORS)

\* a detectCorridors that is content with one corridor transaction
detectCorridorsOne(list, at) ==
  LET risky == corridorRisky(list, at)
      total == Len(risky)
      big == Len(SelectSeq(risky, LAMBDA t : NumGE(t.amt, 20000)))
  IN [hit |-> total >= 1 /\ big >= 1, total |-> total, big |-> big]

detectCorridors(list, at) ==
  LET risky == corridorRisky(list, at)
      total == Len(risky)
      big == Len(SelectSeq(risky, LAMBDA t : NumGE(t.amt, 20000)))
  IN [hit |-> total >= 2 /\ big >= 1, total |-> total, big |-> big]

\* a detectLargeDomestic that wants more than LARGE_DOMESTIC
detectLargeDomesticStrict(list, at) ==
  LET typed == SelectSeq(list, LAMBDA t : typeIncludes(t, "domestic"))
      mapped == [i \in DOMAIN typed |->
                   [amt |-> toNum(typed[i].Amount), d |-> parseDate(typed[i].Date)]]
      dom == SelectSeq(mapped, LAMBDA t :
               /\ t.d.ok
               /\ NumLE(monthsAgo(t.d, at), LOOKBACK_MONTHS)
               /\ NumGE(t.amt, LARGE_DOMESTIC + 1))
  IN [hit |-> Len(dom) > 0, count |-> Len(dom)]

detectLargeDomestic(list, at) ==
  LET typed == SelectSeq(list, LAMBDA t : typeIncludes(t, "domestic"))
      mapped == [i \in DOMAIN typed |->
                   [amt |-> toNum(typed[i].Amount), d |-> parseDate(typed[i].Date)]]
      dom == SelectSeq(mapped, LAMBDA t :
               /\ t.d.ok
               /\ NumLE(monthsAgo(t.d, at), LOOKBACK_MONTHS)
               /\ NumGE(t.amt, LARGE_DOMESTIC))
  IN [hit |-> Len(dom) > 0, count |-> Len(dom)]

\* ---------------------------------------------------------------- scoreClient
\* a reason: its text, and the number the template puts in it (0 when none)
Reason(text, num) == [t |-> text, n |-> num]

\* a rule that puts its reason in front of the list
AddFirst(points, reason) ==
  /\ score' = score + points
  /\ reasons' = <<reason>> \o reasons

Add(points, reason) ==
  /\ score' = score + points
  /\ reasons' = Append(reasons, reason)
Skip == UNCHANGED <<score, reasons>>

inputs == <<client, txList, now, tzOffset>>
\* the state of the handler around the call: the rows, the index, the table
batch == <<route, clock, clientsRaw, txRaw, clients, tx, by, scored, idx, hpc>>
handlerVars == <<s, hr, ld, cases>>

\* the tags of the exposure loop: split, trimmed, non-empty, prefix removed, upper-cased
stripPrefix(tag) ==
  IF tag # <<>> /\ LowerTok(Head(tag)) \in {"highrisk:", "medrisk:"} THEN Tail(tag) ELSE tag
\* an exposure loop that does not trim the pieces
exposureTagsNoTrim(c) ==
  LET exposure == OrElse(c.RiskCountryExposure, Str(<<>>)).s \o <<",">> \o OrElse(c.Country, Str(<<>>)).s
      pieces == split(exposure, ",")
      tags == SelectSeq(pieces, LAMBDA tag : tag # <<>>)
  IN [i \in DOMAIN tags |-> toUpperCase(stripPrefix(tags[i]))]

exposureTags(c) ==
  LET exposure == OrElse(c.RiskCountryExposure, Str(<<>>)).s \o <<",">> \o OrElse(c.Country, Str(<<>>)).s
      pieces == split(exposure, ",")
      trimmed == [i \in DOMAIN pieces |-> trim(pieces[i])]
      tags == SelectSeq(trimmed, LAMBDA tag : tag # <<>>)
  IN [i \in DOMAIN tags |-> toUpperCase(stripPrefix(tags[i]))]
\* the number of tags that are a country of the set
countIn(tags, set) ==
  Len(SelectSeq(tags, LAMBDA c2 : Len(c2) = 1 /\ c2[1] \in set))

\* a PEP rule worth 20 points
RulePEPLow ==
  /\ pc = "pep"
  /\ IF toBoolYN(client.PEP) THEN Add(20, Reason("PEP flagged (+30)", 0)) ELSE Skip
  /\ pc' = "sanctions"
  /\ UNCHANGED <<batch, inputs, band, highExp, medExp, struct, corr, large, handlerVars>>

RulePEP ==
  /\ pc = "pep"
  /\ IF toBoolYN(client.PEP) THEN Add(30, Reason("PEP flagged (+30)", 0)) ELSE Skip
  /\ pc' = "sanctions"
  /\ UNCHANGED <<batch, inputs, band, highExp, medExp, struct, corr, large, handlerVars>>

RuleSanctions ==
  /\ pc = "sanctions"
  /\ IF toBoolYN(client.SanctionsMatch) THEN Add(40, Reason("Sanctions match (+40)", 0)) ELSE Skip
  /\ pc' = "kyc"
  /\ UNCHANGED <<batch, inputs, band, highExp, medExp, struct, corr, large, handlerVars>>

\* const last = parseDate(client.LastKYCReview || client.OnboardDate)
kycLast(c) == parseDate(OrElse(c.LastKYCReview, c.OnboardDate))
\* a staleness test without the guard on the parsed date
kycStaleNoGuard(c, at) == NumGT(monthsAgo(kycLast(c), at), 24)

kycStale(c, at) ==
  LET last == kycLast(c) IN last.ok /\ NumGT(monthsAgo(last, at), 24)

RuleKYC ==
  /\ pc = "kyc"
  /\ IF kycStale(client, DateAt(now))
     THEN Add(6, Reason("KYC review stale (>24mo) (+6)", 0)) ELSE Skip
  /\ pc' = "residency"
  /\ UNCHANGED <<batch, inputs, band, highExp, medExp, struct, corr, large, handlerVars>>

RuleResidency ==
  /\ pc = "residency"
  /\ IF toUpper(client.ResidencyStatus) = <<"NON-RESIDENT">>
     THEN Add(5, Reason("Non-resident (+5)", 0)) ELSE Skip
  /\ pc' = "remittance"
  /\ UNCHANGED <<batch, inputs, band, highExp, medExp, struct, corr, large, handlerVars>>

\* const services = (client.ServicesUsed || "").toLowerCase()
services(c) == toLowerCase(OrElse(c.ServicesUsed, Str(<<>>)).s)

RuleRemittance ==
  /\ pc = "remittance"
  /\ IF lowerRaises(client.ServicesUsed)
     THEN Skip /\ pc' = "threw"
     ELSE /\ IF includes(services(client), "remittance")
             THEN Add(10, Reason("Uses remittance (+10)", 0)) ELSE Skip
          /\ pc' = "property"
  /\ UNCHANGED <<batch, inputs, band, highExp, medExp, struct, corr, large, handlerVars>>

RuleProperty ==
  /\ pc = "property"
  /\ IF includes(services(client), "property")
     THEN Add(5, Reason("Property settlements (+5)", 0)) ELSE Skip
  /\ pc' = "channel"
  /\ UNCHANGED <<batch, inputs, band, highExp, medExp, struct, corr, large, handlerVars>>

\* const ch = (client.DeliveryChannel || "").toLowerCase()
channel(c) == toLowerCase(OrElse(c.DeliveryChannel, Str(<<>>)).s)

RuleChannel ==
  /\ pc = "channel"
  /\ IF lowerRaises(client.DeliveryChannel)
     THEN Skip /\ pc' = "threw"
     ELSE /\ IF \/ includes(channel(client), "mixed")
                \/ includes(channel(client), "broker")
                \/ includes(channel(client), "in-branch")
             THEN Add(4, Reason("Higher-risk delivery channel (+4)", 0)) ELSE Skip
          /\ pc' = "exposure"
  /\ UNCHANGED <<batch, inputs, band, highExp, medExp, struct, corr, large, handlerVars>>

\* the loop over the exposure tags
CountExposure ==
  /\ pc = "exposure"
  /\ highExp' = countIn(exposureTags(client), HIGH_RISK_COUNTRIES)
  /\ medExp' = countIn(exposureTags(client), MED_RISK_COUNTRIES)
  /\ pc' = "high"
  /\ UNCHANGED <<batch, inputs, score, reasons, band, struct, corr, large, handlerVars>>

\* a high-exposure rule that adds its points for every matching tag
RuleHighExposurePerTag ==
  /\ pc = "high"
  /\ IF highExp > 0
     THEN Add(12 * highExp, Reason("Exposure to high-risk countries (n) (+12)", highExp)) ELSE Skip
  /\ pc' = "medium"
  /\ UNCHANGED <<batch, inputs, band, highExp, medExp, struct, corr, large, handlerVars>>

RuleHighExposure ==
  /\ pc = "high"
  /\ IF highExp > 0
     THEN Add(12, Reason("Exposure to high-risk countries (n) (+12)", highExp)) ELSE Skip
  /\ pc' = "medium"
  /\ UNCHANGED <<batch, inputs, band, highExp, medExp, struct, corr, large, handlerVars>>

RuleMediumExposure ==
  /\ pc = "medium"
  /\ IF medExp > 0
     THEN Add(6, Reason("Exposure to medium-risk countries (n) (+6)", medExp)) ELSE Skip
  /\ pc' = "structuring"
  /\ UNCHANGED <<batch, inputs, band, highExp, medExp, struct, corr, large, handlerVars>>

\* a structuring rule whose filter works on the caller's list
RuleStructuringInPlace ==
  /\ pc = "structuring"
  /\ IF typeRaises(txList)
     THEN UNCHANGED <<struct, txList>> /\ Skip /\ pc' = "threw"
     ELSE /\ struct' = detectStructuring(txList, DateAt(now))
          /\ txList' = SelectSeq(txList, LAMBDA t : typeIncludes(t, "cash deposit"))
          /\ IF struct'.hit
             THEN Add(15, Reason("Structuring pattern: n+ near-threshold cash deposits (+15)", struct'.maxRun))
             ELSE Skip
          /\ pc' = "corridors"
  /\ UNCHANGED <<batch, client, now, tzOffset, band, highExp, medExp, corr, large, handlerVars>>

RuleStructuring ==
  /\ pc = "structuring"
  /\ IF typeRaises(txList)
     THEN UNCHANGED struct /\ Skip /\ pc' = "threw"
     ELSE /\ struct' = detectStructuring(txList, DateAt(now))
          /\ IF struct'.hit
             THEN Add(15, Reason("Structuring pattern: n+ near-threshold cash deposits (+15)", struct'.maxRun))
             ELSE Skip
          /\ pc' = "corridors"
  /\ UNCHANGED <<batch, inputs, band, highExp, medExp, corr, large, handlerVars>>

RuleCorridors ==
  /\ pc = "corridors"
  /\ IF typeRaises(txList)
     THEN UNCHANGED corr /\ Skip /\ pc' = "threw"
     ELSE /\ corr' = detectCorridors(txList, DateAt(now))
          /\ IF corr'.hit
             THEN Add(12, Reason("High-risk corridors: n intl to RU/CN/HK/AE/IN/IR (+12)", corr'.total))
             ELSE Skip
          /\ pc' = "large"
  /\ UNCHANGED <<batch, inputs, band, highExp, medExp, struct, large, handlerVars>>

RuleLargeDomestic ==
  /\ pc = "large"
  /\ IF typeRaises(txList)
     THEN UNCHANGED large /\ Skip /\ pc' = "threw"
     ELSE /\ large' = detectLargeDomestic(txList, DateAt(now))
          /\ IF large'.hit
             THEN Add(8, Reason("Large domestic transfer(s) >= 100,000 (+8)", 0)) ELSE Skip
          /\ pc' = "edd"
  /\ UNCHANGED <<batch, inputs, band, highExp, medExp, struct, corr, handlerVars>>

RuleEDD ==
  /\ pc = "edd"
  /\ IF includes(toUpper(OrElse(client.KYCStatus, Str(<<>>))), "ENHANCED")
     THEN Add(5, Reason("EDD in place (+5)", 0)) ELSE Skip
  /\ pc' = "band"
  /\ UNCHANGED <<batch, inputs, band, highExp, medExp, struct, corr, large, handlerVars>>

\* cutoffs that are exclusive
bandOfStrict(sc) == IF sc > 30 THEN "High" ELSE IF sc > 15 THEN "Medium" ELSE "Low"

bandOf(sc) == IF sc >= 30 THEN "High" ELSE IF sc >= 15 THEN "Medium" ELSE "Low"

\* const band = ...; return { score, band, reasons }
ReturnScore ==
  /\ pc = "band"
  /\ band' = bandOf(score)
  /\ pc' = "scored"
  /\ UNCHANGED <<batch, inputs, score, reasons, highExp, medExp, struct, corr, large, handlerVars>>

scoreVars == <<score, reasons, band, highExp, medExp, struct, corr, large>>

\* ---------------------------------------------------------------- case builder
\* the body of the loop `for (const c of scored)` of the /ingest handler
Case(rule, text, num) ==
  [rule |-> rule, client |-> client.Name, detail |-> text, n |-> num]

CaseStructuring ==
  /\ pc \in {"scored", "cases"}
  /\ IF typeRaises(txList)
     THEN UNCHANGED <<s, cases>> /\ pc' = "threw"
     ELSE /\ s' = detectStructuring(txList, DateAt(now))
          /\ cases' = IF s'.hit
                      THEN Append(cases, Case("R_STRUCTURING",
                             "Structuring pattern (n+ near-threshold cash deposits)", s'.maxRun))
                      ELSE cases
          /\ pc' = "case_hr"
  /\ UNCHANGED <<batch, inputs, scoreVars, hr, ld>>

\* a corridor case that reports the number of big transfers
CaseCorridorsBig ==
  /\ pc = "case_hr"
  /\ hr' = detectCorridors(txList, DateAt(now))
  /\ cases' = IF hr'.hit
              THEN Append(cases, Case("R_HIGH_RISK_CORRIDORS",
                     "Intl transfers to high-risk corridors (n=n)", hr'.big))
              ELSE cases
  /\ pc' = "case_ld"
  /\ UNCHANGED <<batch, inputs, scoreVars, s, ld>>

CaseCorridors ==
  /\ pc = "case_hr"
  /\ IF typeRaises(txList)
     THEN UNCHANGED <<hr, cases>> /\ pc' = "threw"
     ELSE /\ hr' = detectCorridors(txList, DateAt(now))
          /\ cases' = IF hr'.hit
                      THEN Append(cases, Case("R_HIGH_RISK_CORRIDORS",
                             "Intl transfers to high-risk corridors (n=n)", hr'.total))
                      ELSE cases
          /\ pc' = "case_ld"
  /\ UNCHANGED <<batch, inputs, scoreVars, s, ld>>

CaseLargeDomestic ==
  /\ pc = "case_ld"
  /\ IF typeRaises(txList)
     THEN UNCHANGED <<ld, cases>> /\ pc' = "threw"
     ELSE /\ ld' = detectLargeDomestic(txList, DateAt(now))
          /\ cases' = IF ld'.hit
                      THEN Append(cases, Case("R_LARGE_DOMESTIC",
                             "Large domestic transfer(s) >= 100,000", 0))
                      ELSE cases
          /\ pc' = "done"
  /\ UNCHANGED <<batch, inputs, scoreVars, s, hr>>

\* ---------------------------------------------------------------- header normalizers
\* lower-cased header -> canonical field name
CLIENT_KEYMAP ==
  [ clientid |-> "ClientID", client_id |-> "ClientID", id |-> "ClientID",
    name |-> "Name", entitytype |-> "EntityType", type |-> "EntityType",
    country |-> "Country", state |-> "State", suburb |-> "Suburb",
    postcode |-> "Postcode", residencystatus |-> "ResidencyStatus", pep |-> "PEP",
    kycstatus |-> "KYCStatus", onboarddate |-> "OnboardDate",
    lastkycreview |-> "LastKYCReview", deliverychannel |-> "DeliveryChannel",
    channel |-> "DeliveryChannel", servicesused |-> "ServicesUsed",
    services |-> "ServicesUsed", industry |-> "Industry",
    annualturnoveraud |-> "AnnualTurnoverAUD", sourceoffunds |-> "SourceOfFunds",
    sanctionsmatch |-> "SanctionsMatch", riskcountryexposure |-> "RiskCountryExposure" ]

TX_KEYMAP ==
  [ txnid |-> "TxnID", id |-> "TxnID", clientid |-> "ClientID", client_id |-> "ClientID",
    client |-> "ClientName", client_name |-> "ClientName", name |-> "ClientName",
    date |-> "Date", txn_date |-> "Date", timestamp |-> "Date",
    amount |-> "Amount", aud_amount |-> "Amount", value |-> "Amount",
    currency |-> "Currency", type |-> "Type", channel |-> "Channel",
    method |-> "Channel", location |-> "Location",
    counterpartyname |-> "CounterpartyName",
    counterparty_country |-> "CounterpartyCountry", country |-> "CounterpartyCountry",
    notes |-> "Notes" ]

\* the tables of lib/riskEngine.js, which the /upload router uses
upload_CLIENT_KEYMAP ==
  [ clientid |-> "ClientID", client_id |-> "ClientID", id |-> "ClientID",
    name |-> "Name", entitytype |-> "EntityType", country |-> "Country",
    state |-> "State", suburb |-> "Suburb", postcode |-> "Postcode",
    residencystatus |-> "ResidencyStatus", pep |-> "PEP", kycstatus |-> "KYCStatus",
    onboarddate |-> "OnboardDate", lastkycreview |-> "LastKYCReview",
    deliverychannel |-> "DeliveryChannel", servicesused |-> "ServicesUsed",
    industry |-> "Industry", annualturnoveraud |-> "AnnualTurnoverAUD",
    sourceoffunds |-> "SourceOfFunds", sanctionsmatch |-> "SanctionsMatch",
    riskcountryexposure |-> "RiskCountryExposure" ]

upload_TX_KEYMAP ==
  [ txnid |-> "TxnID", id |-> "TxnID", clientid |-> "ClientID", client_id |-> "ClientID",
    date |-> "Date", amount |-> "Amount", currency |-> "Currency", type |-> "Type",
    channel |-> "Channel", location |-> "Location",
    counterpartyname |-> "CounterpartyName",
    counterpartycountry |-> "CounterpartyCountry", notes |-> "Notes" ]

\* the canonical names of a table
Canon(keymap) == {keymap[h] : h \in DOMAIN keymap}
\* the fields a record of either table can carry; a field that was never
\* assigned is Undef
Fields == Canon(CLIENT_KEYMAP) \cup Canon(TX_KEYMAP)
EmptyRecord == [f \in Fields |-> Undef]

\* keymap.get(text): "" when the text is no key of the table
keymapGet(keymap, text) ==
  IF Len(text) = 1 /\ text[1] \in DOMAIN keymap THEN keymap[text[1]] ELSE ""

\* a row is the list Object.entries(row): [k |-> header, v |-> value]
RECURSIVE normalizeFrom(_, _, _)
normalizeFrom(row, keymap, out) ==
  IF row = <<>> THEN out
  ELSE LET k == Head(row).k
           v == Head(row).v
           canon == keymapGet(keymap, trim(toLowerCase(k)))
       IN normalizeFrom(Tail(row), keymap,
            IF canon # ""
            THEN [out EXCEPT ![canon] = IF v.k = "str" THEN Str(trim(v.s)) ELSE v]
            ELSE out)
normalizeRow(row, keymap) == normalizeFrom(row, keymap, EmptyRecord)

\* normalizeRow of lib/riskEngine.js
RECURSIVE upload_normalizeFrom(_, _, _)
upload_normalizeFrom(row, keymap, out) ==
  IF row = <<>> THEN out
  ELSE LET k == Head(row).k
           v == Head(row).v
           canon == keymapGet(keymap, toLowerCase(k))
       IN upload_normalizeFrom(Tail(row), keymap,
            IF canon # "" THEN [out EXCEPT ![canon] = v] ELSE out)
upload_normalizeRow(row, keymap) == upload_normalizeFrom(row, keymap, EmptyRecord)

\* a one-token string
Text(t) == Str(<<t>>)

\* ---------------------------------------------------------------- transaction index
\* a groupByClient that files a transaction in front of its group
RECURSIVE groupFromFront(_, _)
groupFromFront(transactions, m) ==
  IF transactions = <<>> THEN m
  ELSE LET t == Head(transactions)
           id == OrElse(t.ClientID, t.ClientName)
       IN groupFromFront(Tail(transactions),
            IF ~Truthy(id) THEN m
            ELSE IF id \in DOMAIN m THEN [m EXCEPT ![id] = <<t>> \o @]
            ELSE m @@ (id :> <<t>>))

\* the Map of groupByClient: a function from key to list
RECURSIVE groupFrom(_, _)
groupFrom(transactions, m) ==
  IF transactions = <<>> THEN m
  ELSE LET t == Head(transactions)
           id == OrElse(t.ClientID, t.ClientName)
       IN groupFrom(Tail(transactions),
            IF ~Truthy(id) THEN m
            ELSE IF id \in DOMAIN m THEN [m EXCEPT ![id] = Append(@, t)]
            ELSE m @@ (id :> <<t>>))
groupByClient(transactions) == groupFrom(transactions, <<>>)

\* groupByClient of lib/riskEngine.js
RECURSIVE upload_groupFrom(_, _)
upload_groupFrom(transactions, m) ==
  IF transactions = <<>> THEN m
  ELSE LET t == Head(transactions)
           id == t.ClientID
       IN upload_groupFrom(Tail(transactions),
            IF ~Truthy(id) THEN m
            ELSE IF id \in DOMAIN m THEN [m EXCEPT ![id] = Append(@, t)]
            ELSE m @@ (id :> <<t>>))
upload_groupByClient(transactions) == upload_groupFrom(transactions, <<>>)

\* by.get(c.ClientID) || by.get(c.Name) || []
txOf(m, c) ==
  IF c.ClientID \in DOMAIN m THEN m[c.ClientID]
  ELSE IF c.Name \in DOMAIN m THEN m[c.Name]
  ELSE <<>>
\* by.get(c.ClientID) || []
upload_txOf(m, c) == IF c.ClientID \in DOMAIN m THEN m[c.ClientID] ELSE <<>>

\* ---------------------------------------------------------------- fallbacks
DigitChar == <<"0", "1", "2", "3", "4", "5", "6", "7", "8", "9">>
\* String(n) of a natural number
RECURSIVE String(_)
String(n) == IF n < 10 THEN DigitChar[n + 1] ELSE String(n \div 10) \o DigitChar[(n % 10) + 1]
RECURSIVE padStart(_, _, _)
padStart(str, len, fill) == IF Len(str) >= len THEN str ELSE padStart(fill \o str, len, fill)
\* `C${String(i + 1).padStart(3, "0")}` for the row of index i (from 0)
PositionalId(i) == Str(<<"C" \o padStart(String(i + 1), 3, "0")>>)

\* the callback of clientsRaw.map: normalize, then the fallbacks
normalizeClient(r, i) ==
  LET n == normalizeRow(r, CLIENT_KEYMAP)
      n1 == [n EXCEPT !.ClientID = OrElse(n.ClientID, PositionalId(i))]
      n2 == [n1 EXCEPT !.Name = OrElse(n1.Name, n1.ClientID)]
  IN [n2 EXCEPT !.Country = OrElse(n2.Country, Text("AU"))]
\* the callback of txRaw.map
normalizeTx(r) ==
  LET n == normalizeRow(r, TX_KEYMAP) IN [n EXCEPT !.Amount = toNum(n.Amount)]

\* ---------------------------------------------------------------- scored table
ScoredRow(c) ==
  [ClientID |-> c.ClientID, Name |-> c.Name, Band |-> band, Score |-> score,
   Reasons |-> reasons,
   Country |-> OrElse(c.Country, Str(<<>>)), PEP |-> OrElse(c.PEP, Text("N")),
   KYCStatus |-> OrElse(c.KYCStatus, Str(<<>>)),
   DeliveryChannel |-> OrElse(c.DeliveryChannel, Str(<<>>)),
   ServicesUsed |-> OrElse(c.ServicesUsed, Str(<<>>))]
upload_ScoredRow(c) ==
  [ClientID |-> c.ClientID, Name |-> c.Name, Band |-> band, Score |-> score,
   Reasons |-> reasons]

\* Array.prototype.sort((a, b) => b.Score - a.Score): stable, descending by Score
RECURSIVE insertByScore(_, _)
insertByScore(sorted, x) ==
  IF sorted = <<>> THEN <<x>>
  ELSE IF x.Score > Head(sorted).Score THEN <<x>> \o sorted
  ELSE <<Head(sorted)>> \o insertByScore(Tail(sorted), x)
RECURSIVE sortByScore(_)
sortByScore(list) ==
  IF list = <<>> THEN <<>>
  ELSE insertByScore(sortByScore(SubSeq(list, 1, Len(list) - 1)), list[Len(list)])

\* ---------------------------------------------------------------- inputs
DateText(y, m, d) == Str(<<y, "-", m, "-", d>>)

Tx(id, type, date, amount, country) ==
  [TxnID |-> id, Type |-> type, Date |-> date, Amount |-> amount,
   CounterpartyCountry |-> country]

\* near-threshold cash deposits and their neighbours
P1 == Tx("P1", Text("cash deposit"), DateText("2025", "05", "01"), Num(9700), Undef)
P2 == Tx("P2", Text("Cash Deposit"), Str(<<"2025", "/", "05", "/", "06">>), Str(<<"9", ",", "700">>), Undef)
P3 == Tx("P3", Str(<<"Wire", " ", "cash deposit">>), DateText("2025", "05", "11"), Num(9700), Undef)
P4 == Tx("P4", Text("CASH DEPOSIT"), DateText("2025", "05", "16"), Str(<<"9700">>), Undef)
P5 == Tx("P5", Text("cash deposit"), DateText("2025", "05", "23"), Num(9600), Undef)
P6 == Tx("P6", Text("cash deposit"), DateText("2025", "05", "11"), Num(10000), Undef)
P7 == Tx("P7", Text("cash deposit"), DateText("2023", "11", "30"), Num(9700), Undef)
P8 == Tx("P8", Text("Wire"), DateText("2025", "05", "11"), Num(9700), Undef)
P9 == Tx("P9", Text("cash deposit"), DateText("2025", "05", "11"), Str(<<"9", ",", "599">>), Undef)
StructPool == {P1, P2, P3, P4, P5, P6, P7, P8, P9}

\* international and domestic transfers
K1 == Tx("K1", Text("International"), DateText("2025", "05", "06"), Num(5000), Text("RU"))
K2 == Tx("K2", Str(<<"international", " ", "Wire">>), DateText("2025", "05", "16"), Str(<<"25", ",", "000">>), Str(<<" ", "cn">>))
K3 == Tx("K3", Text("international"), DateText("2023", "11", "30"), Num(25000), Text("IR"))
K4 == Tx("K4", Text("international"), DateText("2025", "05", "11"), Num(25000), Text("AU"))
K5 == Tx("K5", Text("Wire"), DateText("2025", "05", "11"), Num(25000), Text("RU"))
K6 == Tx("K6", Text("INTERNATIONAL"), DateText("2025", "05", "01"), Num(20000), Text("HK"))
L1 == Tx("L1", Text("Domestic"), DateText("2025", "05", "11"), Num(100000), Undef)
L2 == Tx("L2", Text("domestic"), DateText("2025", "05", "16"), Str(<<"99", ",", "999">>), Undef)
L3 == Tx("L3", Text("domestic"), DateText("2023", "11", "30"), Str(<<"100", ",", "000">>), Undef)
TransferPool == {K1, K2, K3, K4, K5, K6, L1, L2, L3}

\* the lists of at most MaxTx distinct transactions of a pool
ListsOf(pool) ==
  UNION { { l \in [1..len -> pool] : \A i, j \in 1..len : i # j => l[i] # l[j] } : len \in 0..MaxTx }

\* the reference instant and the zone of the process
Envs ==
  { [now |-> UTC(2025, 6, 15) + 1, tz |-> 0],
    [now |-> UTC(2025, 6, 1), tz |-> 0 - 1],
    [now |-> UTC(2025, 6, 30) + (TicksPerDay - 1), tz |-> 1] }

Client(pep, sanctions, kyc, residency, svc, chan, exp, status) ==
  [Name |-> Text("C001"), PEP |-> pep, SanctionsMatch |-> sanctions,
   LastKYCReview |-> kyc[1], OnboardDate |-> kyc[2],
   ResidencyStatus |-> residency, ServicesUsed |-> svc, DeliveryChannel |-> chan,
   RiskCountryExposure |-> exp[1], Country |-> exp[2], KYCStatus |-> status]

\* every combination of a plain and a risky value of each field
PepValues == {Text("N"), Text("Y")}
SanctionsValues == {Text("N"), Str(<<"TRUE", " ">>)}
KycValues ==
  { <<Undef, Undef>>,
    <<DateText("2023", "05", "20"), Undef>>,
    <<DateText("2023", "06", "10"), DateText("2022", "03", "01")>> }
ResidencyValues == {Undef, Text("Non-Resident")}
ServicesValues == {Undef, Str(<<"Remittance", ";", "property">>)}
ChannelValues == {Undef, Text("In-Branch")}
ExposureValues ==
  { <<Undef, Text("AU")>>,
    <<Str(<<"HighRisk:", "RU", ",", " ", "MedRisk:", "CN">>), Text("AU")>>,
    <<Str(<<"ru", ",", "IR", " ", ",", "highrisk:", "Ir">>), Text("cn")>> }
StatusValues == {Undef, Str(<<"Enhanced", " ", "CDD">>)}

ProductClients ==
  { Client(pep, sanctions, kyc, residency, svc, chan, exp, status) :
      pep \in PepValues, sanctions \in SanctionsValues, kyc \in KycValues,
      residency \in ResidencyValues, svc \in ServicesValues, chan \in ChannelValues,
      exp \in ExposureValues, status \in StatusValues }

\* other spellings of one field at a time, in a client with PEP "Y" and nothing else
Base == Client(Text("Y"), Text("N"), <<Undef, Undef>>, Undef, Undef, Undef, <<Undef, Text("AU")>>, Undef)
VariantClients ==
  { [Base EXCEPT !.PEP = v] : v \in {Undef, Str(<<" ", "yes">>), Text("No"), Str(<<>>)} }
  \cup { [Base EXCEPT !.SanctionsMatch = v] : v \in {Undef, Text("y"), Text("True")} }
  \cup { [Base EXCEPT !.LastKYCReview = v[1], !.OnboardDate = v[2]] : v \in
           { <<Str(<<>>), Str(<<"2022", "/", "03", "/", "01">>)>>,
             <<Text("n/a"), DateText("2022", "03", "01")>>,
             <<Undef, Text("unknown")>>,
             <<DateText("2025", "05", "01"), Undef>> } }
  \cup { [Base EXCEPT !.ResidencyStatus = v] : v \in {Text("Resident"), Str(<<"non-resident", " ">>)} }
  \cup { [Base EXCEPT !.ServicesUsed = v] : v \in {Text("Property"), Str(<<"Wire", ";", "REMITTANCE">>)} }
  \cup { [Base EXCEPT !.DeliveryChannel = v] : v \in {Text("Online"), Text("Mixed"), Str(<<"Online", " ", "broker">>)} }
  \cup { [Base EXCEPT !.RiskCountryExposure = v[1], !.Country = v[2]] : v \in
           { <<Str(<<"HighRisk:", " ", "RU">>), Text("HK")>>,
             <<Str(<<"MedRisk:", "IR", ",", ",", "Hk", ",", "NZ">>), Undef>>,
             <<Text("RU"), Text("RU")>> } }
  \cup { [Base EXCEPT !.KYCStatus = v] : v \in {Text("Standard"), Text("ENHANCED")} }

Clients == ProductClients \cup VariantClients

\* the client of the detector runs: no profile risk
PlainClient == Client(Undef, Text("N"), <<Undef, Undef>>, Undef, Undef, Text("Online"), <<Undef, Text("AU")>>, Undef)

\* transaction lists of the scoring runs
Scenarios ==
  { <<>>, <<P2, P4, P1, P3>>, <<K1, L1, K2, P2, P4, P1, P3>>, <<P1, P2, L2, K1>> }

NoStructuring == [hit |-> FALSE, ev |-> FALSE, maxRun |-> 0, count |-> 0]
NoCorridors == [hit |-> FALSE, total |-> 0, big |-> 0]
NoLargeDomestic == [hit |-> FALSE, count |-> 0]

InitLocals ==
  /\ score = 0 /\ reasons = <<>> /\ band = ""
  /\ highExp = 0 /\ medExp = 0
  /\ struct = NoStructuring /\ corr = NoCorridors /\ large = NoLargeDomestic
  /\ s = NoStructuring /\ hr = NoCorridors /\ ld = NoLargeDomestic
  /\ cases = <<>>

\* the handler state of a run that follows one client only
OneClient ==
  /\ route = "ingest" /\ clock = now /\ hpc = "call" /\ idx = 1
  /\ clientsRaw = <<>> /\ txRaw = <<>> /\ clients = <<>> /\ tx = <<>>
  /\ by = <<>> /\ scored = <<>>

\* one client of a batch: scoreClient, then the client's turn in the case loop
Init ==
  /\ client \in Clients
  /\ txList \in Scenarios
  /\ \E e \in Envs : now = e.now /\ tzOffset = e.tz
  /\ pc = "pep"
  /\ InitLocals
  /\ OneClient

ScoreClient ==
  \/ RulePEP \/ RuleSanctions \/ RuleKYC \/ RuleResidency
  \/ RuleRemittance \/ RuleProperty \/ RuleChannel
  \/ CountExposure \/ RuleHighExposure \/ RuleMediumExposure
  \/ RuleStructuring \/ RuleCorridors \/ RuleLargeDomestic
  \/ RuleEDD \/ ReturnScore

BuildCases == CaseStructuring \/ CaseCorridors \/ CaseLargeDomestic

Next == ScoreClient \/ BuildCases

Spec == Init /\ [][Next]_vars

\* the detectors on every short transaction list, for a client without profile risk
InitDetect ==
  /\ client = PlainClient
  /\ txList \in ListsOf(StructPool) \cup ListsOf(TransferPool)
  /\ \E e \in Envs : now = e.now /\ tzOffset = e.tz
  /\ pc = "cases"
  /\ InitLocals
  /\ OneClient

SpecDetect == InitDetect /\ [][BuildCases]_vars

\* transactions of every type with a malformed field: a date that is no date,
\* an amount that is no number, neither date nor amount
AnyType == Str(<<"cash deposit", " ", "international", " ", "domestic">>)
B1 == Tx("B1", AnyType, Text("n/a"), Num(9700), Text("RU"))
B2 == Tx("B2", AnyType, DateText("2025", "05", "16"), Text("abc"), Text("CN"))
B3 == Tx("B3", AnyType, Str(<<"2025", "-", "13", "-", "01">>), Undef, Text("RU"))
MalformedPool == {P1, P2, P3, K1, K2, B1, B2, B3}

\* the detectors on the short lists of these
InitMalformed ==
  /\ client = PlainClient
  /\ txList \in ListsOf(MalformedPool)
  /\ \E e \in Envs : now = e.now /\ tzOffset = e.tz
  /\ pc = "cases"
  /\ InitLocals
  /\ OneClient

SpecMalformed == InitMalformed /\ [][BuildCases]_vars

\* large domestic transfers dated on the first and the last day of the months
\* around the start of the lookback window, and one without a date
W1 == Tx("W1", Text("domestic"), DateText("2023", "10", "31"), Num(100000), Undef)
W2 == Tx("W2", Text("domestic"), DateText("2023", "11", "01"), Num(100000), Undef)
W3 == Tx("W3", Text("domestic"), DateText("2023", "11", "30"), Num(100000), Undef)
W4 == Tx("W4", Text("domestic"), DateText("2023", "12", "01"), Num(100000), Undef)
W5 == Tx("W5", Text("domestic"), DateText("2023", "12", "31"), Num(100000), Undef)
W6 == Tx("W6", Text("domestic"), Text("n/a"), Num(100000), Undef)
WindowPool == {W1, W2, W3, W4, W5, W6}

\* the detectors on the short lists of these
InitWindow ==
  /\ client = PlainClient
  /\ txList \in ListsOf(WindowPool)
  /\ \E e \in Envs : now = e.now /\ tzOffset = e.tz
  /\ pc = "cases"
  /\ InitLocals
  /\ OneClient

SpecWindow == InitWindow /\ [][BuildCases]_vars

\* records whose fields are numbers: a caller of the library may pass any
\* string or number
NumberValues == {Num(0), Num(7)}
TypedClients ==
  {Base}
  \cup { [Base EXCEPT !.ServicesUsed = v] : v \in NumberValues \cup {Text("Remittance")} }
  \cup { [Base EXCEPT !.DeliveryChannel = v] : v \in NumberValues \cup {Text("Broker")} }
  \cup { [Base EXCEPT !.KYCStatus = v] : v \in NumberValues \cup {Text("Enhanced")} }
  \cup { [Base EXCEPT !.RiskCountryExposure = v] : v \in NumberValues \cup {Text("RU")} }
  \cup { [Base EXCEPT !.PEP = v] : v \in NumberValues }
\* transactions whose Type is a number
T0 == Tx("T0", Num(0), DateText("2025", "05", "11"), Num(100000), Undef)
T7 == Tx("T7", Num(7), DateText("2025", "05", "11"), Num(100000), Undef)
TypedScenarios == { <<>>, <<L1, T0>>, <<L1, T7>>, <<K1, K2, L1>> }

\* scoreClient and the case loop on such records
InitTyped ==
  /\ client \in TypedClients
  /\ txList \in TypedScenarios
  /\ \E e \in Envs : now = e.now /\ tzOffset = e.tz
  /\ pc = "pep"
  /\ InitLocals
  /\ OneClient

SpecTyped == InitTyped /\ [][Next]_vars

\* ---------------------------------------------------------------- batches
\* longest client table of a batch
MaxClients == 3

\* an entry of a raw row: header and value
E(h, v) == [k |-> h, v |-> v]

\* client rows: an explicit id that is also a positional id, a row without id
\* whose header and value carry blanks, a row whose name is another row's id,
\* a row identified through a synonym, a row with blank id and empty name
RA == << E(<<"ClientID">>, Text("C002")), E(<<"Name">>, Text("Acme")),
         E(<<"PEP">>, Text("Y")), E(<<"Segment">>, Text("Retail")) >>
RB == << E(<<" ", "name", " ">>, Str(<<" ", "Bob", " ">>)), E(<<"COUNTRY">>, Str(<<>>)),
         E(<<"Services">>, Text("Remittance")) >>
RC == << E(<<"client_id">>, Text("B7")), E(<<"Name">>, Text("C9")),
         E(<<"Country">>, Text("NZ")) >>
RD == << E(<<"ID">>, Text("C9")), E(<<"name">>, Text("Dee")),
         E(<<"RiskCountryExposure">>, Text("RU")),
         E(<<"LastKYCReview">>, DateText("2023", "05", "20")) >>
RE == << E(<<"ClientID">>, Str(<<" ">>)), E(<<"Name">>, Str(<<>>)),
         E(<<"KYCStatus">>, Text("Enhanced")) >>
ClientRows == {RA, RB, RC, RD, RE}

\* the tables of at most MaxClients distinct rows
ClientBatches ==
  UNION { { l \in [1..len -> ClientRows] : \A i, j \in 1..len : i # j => l[i] # l[j] }
          : len \in 0..MaxClients }

\* transaction rows: near-threshold cash deposits of C002
S1 == << E(<<"ClientID">>, Text("C002")), E(<<"Type">>, Text("Cash Deposit")),
         E(<<"Date">>, DateText("2025", "05", "01")), E(<<"Amount">>, Text("9700")) >>
S2 == << E(<<"clientid">>, Text("C002")), E(<<"type">>, Text("cash deposit")),
         E(<<"date">>, DateText("2025", "05", "06")), E(<<"amount">>, Str(<<"9", ",", "700">>)) >>
S3 == << E(<<"Client_Id">>, Text("C002")), E(<<"Type">>, Text("CASH DEPOSIT")),
         E(<<"Date">>, DateText("2025", "05", "11")), E(<<"Amount">>, Text("9600")) >>
S4 == << E(<<"ClientID">>, Text("C002")), E(<<"Type">>, Text("cash deposit")),
         E(<<"Date">>, DateText("2025", "05", "16")), E(<<"Amount">>, Text("9700")),
         E(<<"Segment">>, Text("Retail")) >>
\* international transfers of C9, the country under a synonym and under the
\* canonical name
X1 == << E(<<"ClientID">>, Text("C9")), E(<<"Type">>, Text("International")),
         E(<<"Date">>, DateText("2025", "05", "06")), E(<<"Amount">>, Text("5000")),
         E(<<"counterparty_country">>, Text("RU")) >>
X2 == << E(<<"ClientID">>, Text("C9")), E(<<"Type">>, Text("international")),
         E(<<"Date">>, DateText("2025", "05", "16")), E(<<"Amount">>, Str(<<"25", ",", "000">>)),
         E(<<"Country">>, Text("cn")) >>
X3 == << E(<<"ClientID">>, Text("C9")), E(<<"Type">>, Text("International")),
         E(<<"Date">>, DateText("2025", "05", "06")), E(<<"Amount">>, Text("5000")),
         E(<<"CounterpartyCountry">>, Text("RU")) >>
X4 == << E(<<"ClientID">>, Text("C9")), E(<<"Type">>, Text("international")),
         E(<<"Date">>, DateText("2025", "05", "16")), E(<<"Amount">>, Text("25000")),
         E(<<"CounterpartyCountry">>, Text("HK")) >>
\* domestic transfers: of the client named Bob, of nobody, of C001, of C002
D1 == << E(<<"client_name">>, Text("Bob")), E(<<"Type">>, Text("Domestic")),
         E(<<"Date">>, DateText("2025", "05", "11")), E(<<"Amount">>, Text("100000")) >>
D2 == << E(<<"ClientID">>, Str(<<>>)), E(<<"Type">>, Text("domestic")),
         E(<<"Date">>, DateText("2025", "05", "11")), E(<<"Amount">>, Str(<<"100", ",", "000">>)) >>
D3 == << E(<<"ClientID">>, Text("C001")), E(<<"Type">>, Text("domestic")),
         E(<<"Date">>, DateText("2025", "05", "16")), E(<<"Amount">>, Text("100000")) >>
D4 == << E(<<"CLIENTID">>, Text("C002")), E(<<"Type">>, Text("Domestic")),
         E(<<"Date">>, DateText("2025", "05", "20")), E(<<"Amount">>, Text("100000")) >>
TxBatches ==
  { <<>>,
    <<S1, X1, D1, S2, D2, X2, S3, S4, D3>>,
    <<X3, S2, X4, S1, D3, S4, D4, S3>> }

\* the wall clock when the request arrives, and the zone of the process
BatchEnvs ==
  { [clock |-> UTC(2025, 6, 15) + 1, tz |-> 0],
    [clock |-> UTC(2025, 6, 30) + (TicksPerDay - 1), tz |-> 0] }

\* a request: the two parsed files
InitBatch ==
  /\ route \in {"ingest", "upload"}
  /\ clientsRaw \in ClientBatches
  /\ txRaw \in TxBatches
  /\ \E e \in BatchEnvs : clock = e.clock /\ tzOffset = e.tz
  /\ hpc = "clients" /\ idx = 1
  /\ clients = <<>> /\ tx = <<>> /\ by = <<>> /\ scored = <<>>
  /\ client = EmptyRecord /\ txList = <<>> /\ now = 0 /\ pc = "idle"
  /\ InitLocals

\* ---------------------------------------------------------------- POST /ingest
rows == <<clientsRaw, txRaw>>
locals == <<score, reasons, band, highExp, medExp, struct, corr, large>>

\* const clients = clientsRaw.map((r, i) => ...)
NormalizeClients ==
  /\ route = "ingest" /\ hpc = "clients"
  /\ clients' = [i \in DOMAIN clientsRaw |-> normalizeClient(clientsRaw[i], i - 1)]
  /\ hpc' = "tx"
  /\ UNCHANGED <<route, clock, rows, tx, by, scored, idx, inputs, pc, locals, handlerVars>>

\* const tx = txRaw.map((r) => ...)
NormalizeTx ==
  /\ route = "ingest" /\ hpc = "tx"
  /\ tx' = [i \in DOMAIN txRaw |-> normalizeTx(txRaw[i])]
  /\ hpc' = "group"
  /\ UNCHANGED <<route, clock, rows, clients, by, scored, idx, inputs, pc, locals, handlerVars>>

\* const by = groupByClient(tx)
GroupTx ==
  /\ route = "ingest" /\ hpc = "group"
  /\ by' = groupByClient(tx)
  /\ hpc' = "clock"
  /\ UNCHANGED <<route, clock, rows, clients, tx, scored, idx, inputs, pc, locals, handlerVars>>

\* const now = new Date()
ReadClock ==
  /\ route = "ingest" /\ hpc = "clock"
  /\ now' = clock
  /\ hpc' = "score"
  /\ UNCHANGED <<route, clock, rows, clients, tx, by, scored, idx,
                 client, txList, tzOffset, pc, locals, handlerVars>>

\* the callback of clients.map up to the call scoreClient(c, t, now)
CallScoreClient ==
  /\ route = "ingest" /\ hpc = "score" /\ idx <= Len(clients)
  /\ client' = clients[idx]
  /\ txList' = txOf(by, clients[idx])
  /\ pc' = "pep"
  /\ score' = 0 /\ reasons' = <<>> /\ band' = "" /\ highExp' = 0 /\ medExp' = 0
  /\ struct' = NoStructuring /\ corr' = NoCorridors /\ large' = NoLargeDomestic
  /\ hpc' = "in_score"
  /\ UNCHANGED <<route, clock, rows, clients, tx, by, scored, idx, now, tzOffset, handlerVars>>

\* the callback of clients.map after the call: the row of the table
CollectRow ==
  /\ route = "ingest" /\ hpc = "in_score" /\ pc = "scored"
  /\ scored' = Append(scored, ScoredRow(client))
  /\ idx' = idx + 1
  /\ hpc' = "score"
  /\ UNCHANGED <<route, clock, rows, clients, tx, by, inputs, pc, locals, handlerVars>>

\* a handler that leaves the table in the order of the client file
SortScoredNot ==
  /\ route = "ingest" /\ hpc = "score" /\ idx > Len(clients)
  /\ scored' = scored
  /\ idx' = 1
  /\ hpc' = "cases"
  /\ UNCHANGED <<route, clock, rows, clients, tx, by, inputs, pc, locals, handlerVars>>

\* .sort((a, b) => b.Score - a.Score); const cases = []
SortScored ==
  /\ route = "ingest" /\ hpc = "score" /\ idx > Len(clients)
  /\ scored' = sortByScore(scored)
  /\ idx' = 1
  /\ hpc' = "cases"
  /\ UNCHANGED <<route, clock, rows, clients, tx, by, inputs, pc, locals, handlerVars>>

\* a case loop that walks the scored table from its last row
NextCaseFromEnd ==
  /\ route = "ingest" /\ hpc = "cases" /\ idx <= Len(scored)
  /\ client' = scored[Len(scored) + 1 - idx]
  /\ txList' = txOf(by, scored[Len(scored) + 1 - idx])
  /\ pc' = "cases"
  /\ hpc' = "in_case"
  /\ UNCHANGED <<route, clock, rows, clients, tx, by, scored, idx, now, tzOffset,
                 locals, handlerVars>>

\* for (const c of scored): const t = by.get(c.ClientID) || by.get(c.Name) || []
NextCase ==
  /\ route = "ingest" /\ hpc = "cases" /\ idx <= Len(scored)
  /\ client' = scored[idx]
  /\ txList' = txOf(by, scored[idx])
  /\ pc' = "cases"
  /\ hpc' = "in_case"
  /\ UNCHANGED <<route, clock, rows, clients, tx, by, scored, idx, now, tzOffset,
                 locals, handlerVars>>

\* the end of the loop body
EndCase ==
  /\ route = "ingest" /\ hpc = "in_case" /\ pc = "done"
  /\ idx' = idx + 1
  /\ hpc' = "cases"
  /\ UNCHANGED <<route, clock, rows, clients, tx, by, scored, inputs, pc, locals, handlerVars>>

\* res.render("results", { clients: scored, cases })
Render ==
  /\ route = "ingest" /\ hpc = "cases" /\ idx > Len(scored)
  /\ hpc' = "done"
  /\ UNCHANGED <<route, clock, rows, clients, tx, by, scored, idx, inputs, pc, locals, handlerVars>>

\* ---------------------------------------------------------------- POST /api/upload
\* the clock readings of one request: a later reading is never earlier
ClockSteps == {0, 1}

\* clients, tx and by of the router
upload_Normalize ==
  /\ route = "upload" /\ hpc = "clients"
  /\ clients' = [i \in DOMAIN clientsRaw |-> upload_normalizeRow(clientsRaw[i], upload_CLIENT_KEYMAP)]
  /\ tx' = [i \in DOMAIN txRaw |-> upload_normalizeRow(txRaw[i], upload_TX_KEYMAP)]
  /\ by' = upload_groupByClient(tx')
  /\ hpc' = "score"
  /\ UNCHANGED <<route, clock, rows, scored, idx, inputs, pc, locals, handlerVars>>

\* the callback of clients.map up to the call scoreClient(c, t, new Date())
upload_CallScoreClient ==
  /\ route = "upload" /\ hpc = "score" /\ idx <= Len(clients)
  /\ \E later \in ClockSteps : clock' = clock + later
  /\ now' = clock'
  /\ client' = clients[idx]
  /\ txList' = upload_txOf(by, clients[idx])
  /\ pc' = "pep"
  /\ score' = 0 /\ reasons' = <<>> /\ band' = "" /\ highExp' = 0 /\ medExp' = 0
  /\ struct' = NoStructuring /\ corr' = NoCorridors /\ large' = NoLargeDomestic
  /\ hpc' = "in_score"
  /\ UNCHANGED <<route, rows, clients, tx, by, scored, idx, tzOffset, handlerVars>>

upload_CollectRow ==
  /\ route = "upload" /\ hpc = "in_score" /\ pc = "scored"
  /\ scored' = Append(scored, upload_ScoredRow(client))
  /\ idx' = idx + 1
  /\ hpc' = "score"
  /\ UNCHANGED <<route, clock, rows, clients, tx, by, inputs, pc, locals, handlerVars>>

\* .sort((a, b) => b.Score - a.Score); res.json({ ok: true, count, results })
upload_Respond ==
  /\ route = "upload" /\ hpc = "score" /\ idx > Len(clients)
  /\ scored' = sortByScore(scored)
  /\ hpc' = "done"
  /\ UNCHANGED <<route, clock, rows, clients, tx, by, idx, inputs, pc, locals, handlerVars>>

\* the body of scoreClient, and of the case loop, inside a request
InScoreClient == hpc = "in_score" /\ ScoreClient
InCaseLoop == hpc = "in_case" /\ BuildCases

Ingest ==
  \/ NormalizeClients \/ NormalizeTx \/ GroupTx \/ ReadClock
  \/ CallScoreClient \/ CollectRow \/ SortScored
  \/ NextCase \/ EndCase \/ Render
Upload == upload_Normalize \/ upload_CallScoreClient \/ upload_CollectRow \/ upload_Respond
NextBatch == Ingest \/ Upload \/ InScoreClient \/ InCaseLoop

SpecBatch == InitBatch /\ [][NextBatch]_vars

\* ---------------------------------------------------------------- claims
\* the case loop has finished the client's turn
CasesDone == pc = "done"
Range(list) == {list[i] : i \in DOMAIN list}
MaxOf(set) == CHOOSE m \in set : \A x \in set : x <= m

\* the words of the claims, stated on the transaction list itself
ClaimTypeHas(t, word) == \E i \in DOMAIN TextOf(t.Type) : LowerTok(TextOf(t.Type)[i]) = word
ClaimInWindow(t) ==
  LET d == parseDate(t.Date) IN d.ok /\ NumLE(monthsAgo(d, DateAt(now)), 18)
ClaimAmountIn(t, lo, hi) ==
  LET a == toNum(t.Amount) IN a.k = "num" /\ lo <= a.n /\ a.n < hi
ClaimAmountAtLeast(t, lo) ==
  LET a == toNum(t.Amount) IN a.k = "num" /\ lo <= a.n
ClaimQualifies(t) ==
  ClaimTypeHas(t, "cash deposit") /\ ClaimInWindow(t) /\ ClaimAmountIn(t, 9600, 10000)
\* the instants of the qualifying transactions, in the order of the list
RECURSIVE InstantsOf(_)
InstantsOf(list) ==
  IF list = <<>> THEN <<>> ELSE <<parseDate(Head(list).Date).t>> \o InstantsOf(Tail(list))
ClaimInstants == InstantsOf(SelectSeq(txList, ClaimQualifies))
\* from instant lo to instant hi every qualifying transaction is at most 7 days
\* after an earlier one
ChainOk(at, lo, hi) ==
  \A x \in DOMAIN at :
    (lo < at[x] /\ at[x] <= hi) =>
      \E y \in DOMAIN at : at[y] < at[x] /\ at[x] - at[y] <= 7 * TicksPerDay
RunSize(at, lo, hi) == Cardinality({x \in DOMAIN at : lo <= at[x] /\ at[x] <= hi})
ClaimMaxRun(at) ==
  LET spans == {p \in Range(at) \X Range(at) : p[1] <= p[2] /\ ChainOk(at, p[1], p[2])}
  IN MaxOf({0} \cup {RunSize(at, p[1], p[2]) : p \in spans})

\* C1: detectStructuring reports a hit exactly when the longest chain of
\* qualifying deposits, each at most 7 days after the one before it, has at
\* least 4 members (and so at least 4 deposits qualify); three deposits of 9700
\* five days apart give no hit, a fourth at day 15 gives a hit with maxRun 4.
C1_StructuringHitIffRunOfFour ==
  CasesDone =>
    LET at == ClaimInstants
        longest == ClaimMaxRun(at)
    IN /\ s.hit = (longest >= 4 /\ Len(at) >= 4)
       /\ (s.ev => s.maxRun = longest)
       /\ (Len(txList) = 3 /\ Range(txList) = {P1, P2, P3} => ~s.hit)
       /\ (Range(txList) = {P1, P2, P3, P4} => s.hit /\ s.maxRun = 4)
C1_Witness ==
  CasesDone /\ txList = <<P3, P1, P4, P2>> /\ s.hit /\ s.maxRun = 4 /\ s.count = 4

\* C6: a transaction qualifies for the structuring detector exactly when its
\* Type contains "cash deposit", its date is in the lookback window and its
\* amount a satisfies 9600 <= a < 10000; the result counts exactly those.
C6_StructuringQualification ==
  CasesDone =>
    LET qualifying == Len(SelectSeq(txList, ClaimQualifies))
    IN /\ (s.ev => s.count = qualifying)
       /\ (~s.ev => qualifying < 4)
C6_Witness ==
  /\ CasesDone /\ P5 \in Range(txList) /\ s.ev /\ s.count = 4
  /\ toNum(P5.Amount) = Num(9600)

\* C5: detectCorridors counts the in-window international transactions to a
\* corridor country (total) and those of them with amount >= 20000 (big); hit
\* is total >= 2 and big >= 1.  5000 and 25000 both in the window hit; with
\* only one of the two in the window there is no hit.
ClaimRisky(t) ==
  /\ ClaimTypeHas(t, "international") /\ ClaimInWindow(t)
  /\ \E c \in HIGH_RISK_CORRIDORS : toUpper(t.CounterpartyCountry) = <<c>>
ClaimBig(t) == ClaimAmountAtLeast(t, 20000)
C5_CorridorHit ==
  CasesDone =>
    LET risky == SelectSeq(txList, ClaimRisky)
        total == Len(risky)
        big == Len(SelectSeq(risky, ClaimBig))
    IN /\ hr.total = total
       /\ hr.big = big
       /\ hr.hit = (total >= 2 /\ big >= 1)
       /\ (Range(txList) = {K1, K2} => hr.hit /\ hr.total = 2 /\ hr.big = 1)
       /\ (Range(txList) = {K1, K3} /\ ~ClaimInWindow(K3) => ~hr.hit)
C5_Witness ==
  CasesDone /\ txList = <<K1, K2>> /\ hr.hit /\ hr.total = 2 /\ hr.big = 1

\* C7: detectLargeDomestic counts the in-window transactions whose Type
\* contains "domestic" and whose amount is >= 100000; hit is count >= 1.
ClaimLarge(t) ==
  ClaimTypeHas(t, "domestic") /\ ClaimInWindow(t) /\ ClaimAmountAtLeast(t, 100000)
C7_LargeDomestic ==
  CasesDone =>
    LET count == Len(SelectSeq(txList, ClaimLarge))
    IN ld.count = count /\ ld.hit = (count >= 1)
C7_Witness ==
  /\ CasesDone /\ L1 \in Range(txList) /\ L2 \in Range(txList)
  /\ toNum(L1.Amount) = Num(100000) /\ ld.hit /\ ld.count = 1

\* ---------------------------------------------------------------- claims on scoreClient
\* scoreClient has returned
Scored == pc \in {"scored", "case_hr", "case_ld", "done"}
PcOrder ==
  << "pep", "sanctions", "kyc", "residency", "remittance", "property", "channel",
     "exposure", "high", "medium", "structuring", "corridors", "large", "edd",
     "band", "scored", "case_hr", "case_ld", "done" >>
Pos(p) == CHOOSE i \in DOMAIN PcOrder : PcOrder[i] = p
Texts(list) == [i \in DOMAIN list |-> list[i].t]
RuleTexts(rules) == [i \in DOMAIN rules |-> rules[i].text]

\* the exposure tags as the claims describe them, read off the joined text by
\* position: a piece lies between two commas, its tag is the piece without
\* surrounding blanks and without a leading HighRisk:/MedRisk: prefix
ClaimJoined(c) == TextOf(c.RiskCountryExposure) \o <<",">> \o TextOf(c.Country)
ClaimTagCount(c, set) ==
  LET j == ClaimJoined(c)
      starts == {p \in 1..(Len(j) + 1) : p = 1 \/ j[p - 1] = ","}
      EndOf(p) == MaxOf({q \in (p - 1)..Len(j) : \A r \in p..q : j[r] # ","})
      Content(p) == {q \in p..EndOf(p) : j[q] # " "}
      First(p) == CHOOSE q \in Content(p) : \A r \in Content(p) : q <= r
      Last(p) == MaxOf(Content(p))
      Body(p) == IF LowerTok(j[First(p)]) \in {"highrisk:", "medrisk:"}
                 THEN (First(p) + 1)..Last(p) ELSE First(p)..Last(p)
      Matches(p) == /\ Content(p) # {}
                    /\ Cardinality(Body(p)) = 1
                    /\ \A q \in Body(p) : UpperTok(j[q]) \in set
  IN Cardinality({p \in starts : Matches(p)})
ClaimHighCount(c) == ClaimTagCount(c, {"RU", "IR"})
ClaimMedCount(c) == ClaimTagCount(c, {"CN", "HK", "AE", "IN"})

\* the KYC date of the claims: LastKYCReview or, if absent, OnboardDate
ClaimKycDate(c) ==
  IF c.LastKYCReview.k = "undef" \/ c.LastKYCReview.s = <<>> THEN c.OnboardDate
  ELSE c.LastKYCReview
ClaimKycParses(c) == parseDate(ClaimKycDate(c)).ok
ClaimKycOld(c) ==
  LET d == parseDate(ClaimKycDate(c))
  IN d.ok /\ (getFullYear(DateAt(now)) - getFullYear(d)) * 12
               + (getMonth(DateAt(now)) - getMonth(d)) > 24

\* the thirteen rules in the order of the table: position, reason, points, condition
ClaimRules ==
  << [at |-> "pep", text |-> "PEP flagged (+30)", points |-> 30,
      holds |-> toBoolYN(client.PEP)],
     [at |-> "sanctions", text |-> "Sanctions match (+40)", points |-> 40,
      holds |-> toBoolYN(client.SanctionsMatch)],
     [at |-> "kyc", text |-> "KYC review stale (>24mo) (+6)", points |-> 6,
      holds |-> ClaimKycOld(client)],
     [at |-> "residency", text |-> "Non-resident (+5)", points |-> 5,
      holds |-> toUpper(client.ResidencyStatus) = <<"NON-RESIDENT">>],
     [at |-> "remittance", text |-> "Uses remittance (+10)", points |-> 10,
      holds |-> \E i \in DOMAIN TextOf(client.ServicesUsed) :
                  LowerTok(TextOf(client.ServicesUsed)[i]) = "remittance"],
     [at |-> "property", text |-> "Property settlements (+5)", points |-> 5,
      holds |-> \E i \in DOMAIN TextOf(client.ServicesUsed) :
                  LowerTok(TextOf(client.ServicesUsed)[i]) = "property"],
     [at |-> "channel", text |-> "Higher-risk delivery channel (+4)", points |-> 4,
      holds |-> \E i \in DOMAIN TextOf(client.DeliveryChannel) :
                  LowerTok(TextOf(client.DeliveryChannel)[i]) \in {"mixed", "broker", "in-branch"}],
     [at |-> "high", text |-> "Exposure to high-risk countries (n) (+12)", points |-> 12,
      holds |-> ClaimHighCount(client) >= 1],
     [at |-> "medium", text |-> "Exposure to medium-risk countries (n) (+6)", points |-> 6,
      holds |-> ClaimMedCount(client) >= 1],
     [at |-> "structuring", text |-> "Structuring pattern: n+ near-threshold cash deposits (+15)",
      points |-> 15, holds |-> struct.hit],
     [at |-> "corridors", text |-> "High-risk corridors: n intl to RU/CN/HK/AE/IN/IR (+12)",
      points |-> 12, holds |-> corr.hit],
     [at |-> "large", text |-> "Large domestic transfer(s) >= 100,000 (+8)", points |-> 8,
      holds |-> large.hit],
     [at |-> "edd", text |-> "EDD in place (+5)", points |-> 5,
      holds |-> \E i \in DOMAIN TextOf(client.KYCStatus) :
                  UpperTok(TextOf(client.KYCStatus)[i]) = "ENHANCED"] >>

RECURSIVE SumPoints(_)
SumPoints(rules) ==
  IF rules = <<>> THEN 0
  ELSE (IF Head(rules).holds THEN Head(rules).points ELSE 0) + SumPoints(Tail(rules))

\* C2: the score returned by scoreClient is the sum of the points of the rules
\* whose condition holds, each rule counted once; it is never negative.
C2_ScoreIsSumOfTriggeredRules ==
  /\ score >= 0
  /\ Scored => score = SumPoints(ClaimRules)
C2_Witness ==
  /\ Scored /\ score = 158 /\ highExp = 3
  /\ struct.hit /\ corr.hit /\ large.hit

\* C3: the band is set once, when every rule has been applied, from the final
\* score alone: High from 30, Medium from 15, Low below; a lower score never
\* has a higher band.
BandRank(b) == IF b = "High" THEN 3 ELSE IF b = "Medium" THEN 2 ELSE 1
C3_BandFromFinalScore ==
  /\ ~Scored => band = ""
  /\ Scored =>
       /\ band = (IF score >= 30 THEN "High" ELSE IF score >= 15 THEN "Medium" ELSE "Low")
       /\ \A b \in 0..score : BandRank(bandOf(b)) <= BandRank(band)
C3_Witness == Scored /\ score = 15 /\ band = "Medium"

\* C4 as stated: the staleness rule adds +6 and its reason whenever the KYC
\* date is more than 24 months old, and also whenever it is missing or
\* unparseable.
KycReason == Reason("KYC review stale (>24mo) (+6)", 0)
C4_StaleAlsoWhenMissing ==
  [][pc = "kyc" /\ pc' # "kyc" /\ (ClaimKycOld(client) \/ ~ClaimKycParses(client))
       => score' = score + 6 /\ reasons' = Append(reasons, KycReason)]_vars
\* C4 amended: the staleness rule adds +6 and its reason exactly when the KYC
\* date parses and lies more than 24 calendar months before the reference
\* instant; a missing or unparseable date adds nothing.
C4_StaleOnlyWhenParsedAndOld ==
  [][pc = "kyc" /\ pc' # "kyc"
       => IF ClaimKycOld(client)
          THEN score' = score + 6 /\ reasons' = Append(reasons, KycReason)
          ELSE score' = score /\ reasons' = reasons]_vars
C4_Witness ==
  /\ pc = "residency" /\ ClaimKycOld(client)
  /\ reasons # <<>> /\ reasons[Len(reasons)] = KycReason

\* C8: the reasons are exactly the reasons of the triggered rules, one each,
\* in the fixed order of the rules; at every point of the evaluation the list
\* holds the triggered rules among those already evaluated.
EvaluatedAndTriggered(r) == Pos(pc) > Pos(r.at) /\ r.holds
C8_ReasonsInRuleOrder ==
  Texts(reasons) = RuleTexts(SelectSeq(ClaimRules, EvaluatedAndTriggered))
C8_Witness ==
  /\ Scored /\ Len(reasons) = 13
  /\ reasons[1].t = "PEP flagged (+30)" /\ reasons[13].t = "EDD in place (+5)"

\* C9: the exposure tags are the comma-separated pieces of RiskCountryExposure
\* and Country, trimmed, without prefix, upper-cased; +12 is added once when a
\* tag is a high-risk country and +6 once when a tag is a medium-risk country,
\* and the reason carries the number of matching tags.
\* "HighRisk:RU, MedRisk:CN" with Country "AU" adds 12 and 6.
ExampleExposure == Str(<<"HighRisk:", "RU", ",", " ", "MedRisk:", "CN">>)
IsExample(c) == c.RiskCountryExposure = ExampleExposure /\ c.Country = Text("AU")
HighReason(num) == Reason("Exposure to high-risk countries (n) (+12)", num)
MedReason(num) == Reason("Exposure to medium-risk countries (n) (+6)", num)
C9_ExposureBonusOncePerTier ==
  [][/\ pc = "high" /\ pc' # "high" =>
          /\ IF ClaimHighCount(client) >= 1
             THEN /\ score' = score + 12
                  /\ reasons' = Append(reasons, HighReason(ClaimHighCount(client)))
             ELSE score' = score /\ reasons' = reasons
          /\ IsExample(client) => score' = score + 12
     /\ pc = "medium" /\ pc' # "medium" =>
          /\ IF ClaimMedCount(client) >= 1
             THEN /\ score' = score + 6
                  /\ reasons' = Append(reasons, MedReason(ClaimMedCount(client)))
             ELSE score' = score /\ reasons' = reasons
          /\ IsExample(client) => score' = score + 6]_vars
C9_Witness ==
  /\ pc = "structuring" /\ IsExample(client)
  /\ Len(reasons) >= 2
  /\ reasons[Len(reasons) - 1] = HighReason(1)
  /\ reasons[Len(reasons)] = MedReason(1)

\* C10: a client with PEP "Y", SanctionsMatch "N", Country "AU", nothing else
\* and no transactions is High with the reason "PEP flagged (+30)"; the score
\* is 30 with that one reason, or 36 with the stale-KYC reason after it.
PepReason == Reason("PEP flagged (+30)", 0)
C10_PepOnlyClient ==
  Scored /\ client = Base /\ txList = <<>> =>
    /\ band = "High"
    /\ PepReason \in Range(reasons)
    /\ \/ score = 30 /\ reasons = <<PepReason>>
       \/ score = 36 /\ reasons = <<PepReason, KycReason>>
C10_Witness ==
  Scored /\ client = Base /\ txList = <<>> /\ score = 30 /\ band = "High"

\* ---------------------------------------------------------------- claims on a batch
\* the index of the transactions has been built
Grouped == hpc \notin {"clients", "tx", "group"}
HasText(v) == v.k = "str" /\ v.s # <<>>
\* the transactions whose ClientID is id, in the order of the file
ClaimWithClientID(id) == SelectSeq(tx, LAMBDA t : t.ClientID = id)
\* the key a transaction is filed under: its ClientID; on /ingest, its
\* ClientName when it has no ClientID
ClaimKey(t) ==
  IF HasText(t.ClientID) THEN t.ClientID
  ELSE IF route = "ingest" THEN t.ClientName ELSE Undef
ClaimWithKey(key) == SelectSeq(tx, LAMBDA t : ClaimKey(t) = key)

\* C11 as stated: every group is keyed by a ClientID and holds exactly the
\* transactions with that ClientID, in their original order; a transaction
\* with a ClientID is in the group of its ClientID, and a transaction with no
\* ClientID is in no group.
C11_GroupsKeyedByClientIDOnly ==
  Grouped =>
    /\ \A key \in DOMAIN by : by[key] = ClaimWithClientID(key)
    /\ \A i \in DOMAIN tx : HasText(tx[i].ClientID) => tx[i].ClientID \in DOMAIN by
    /\ \A i \in DOMAIN tx : ~HasText(tx[i].ClientID) =>
         \A key \in DOMAIN by : tx[i] \notin Range(by[key])

\* C11 amended: every group holds exactly the transactions filed under its
\* key, in their original order, the key being the ClientID or, on /ingest
\* for a transaction without ClientID, the ClientName; a transaction with a
\* key is in the group of its key and a transaction with no key is in no group.
C11_GroupsKeyedByIdOrName ==
  Grouped =>
    /\ \A key \in DOMAIN by : HasText(key) /\ by[key] = ClaimWithKey(key)
    /\ \A i \in DOMAIN tx : HasText(ClaimKey(tx[i])) => ClaimKey(tx[i]) \in DOMAIN by
    /\ \A i \in DOMAIN tx : ~HasText(ClaimKey(tx[i])) =>
         \A key \in DOMAIN by : tx[i] \notin Range(by[key])
C11_Witness ==
  /\ Grouped /\ route = "ingest"
  /\ Text("Bob") \in DOMAIN by /\ Len(by[Text("Bob")]) = 1
  /\ ~HasText(by[Text("Bob")][1].ClientID)
  /\ Text("C002") \in DOMAIN by /\ Len(by[Text("C002")]) = 4
  /\ \E i \in DOMAIN tx : ~HasText(ClaimKey(tx[i]))

\* scoreClient has returned inside the request; the client's turn in the case
\* loop is over
ScoredInBatch == hpc = "in_score" /\ pc = "scored"
CasesBuiltInBatch == hpc = "in_case" /\ pc = "done"
\* a transaction of another client of the batch: it carries the ClientID of a
\* client other than c
ClaimOfAnother(t, c) ==
  /\ HasText(t.ClientID) /\ t.ClientID # c.ClientID
  /\ \E j \in DOMAIN clients : clients[j].ClientID = t.ClientID
\* the list c is evaluated on when the transactions of the other clients are
\* taken out of the file
ClaimListWithoutOthers(c) ==
  LET rest == SelectSeq(tx, LAMBDA t : ~ClaimOfAnother(t, c))
  IN IF route = "ingest" THEN txOf(groupByClient(rest), c)
     ELSE upload_txOf(upload_groupByClient(rest), c)

\* C12: what a client is scored on, and what its cases are built from, does not
\* change when the transactions of the other clients of the batch are removed:
\* the three detector results behind its score, reasons and cases are those of
\* the batch without the other clients' transactions.
C12_IndependentOfOtherClients ==
  /\ ScoredInBatch =>
       LET own == ClaimListWithoutOthers(client)
       IN /\ struct = detectStructuring(own, DateAt(now))
          /\ corr = detectCorridors(own, DateAt(now))
          /\ large = detectLargeDomestic(own, DateAt(now))
  /\ CasesBuiltInBatch =>
       LET own == ClaimListWithoutOthers(client)
       IN /\ s = detectStructuring(own, DateAt(now))
          /\ hr = detectCorridors(own, DateAt(now))
          /\ ld = detectLargeDomestic(own, DateAt(now))

\* the client rows have been normalized (and, on /ingest, defaulted)
ClientsReady == hpc # "clients"

\* C13: after the client rows of a batch are normalized and defaulted, every
\* client has a non-empty ClientID and no two clients share a ClientID, also
\* when explicit and positional ids are mixed.
C13_ClientIDsUnique ==
  route = "ingest" /\ ClientsReady =>
    /\ \A i \in DOMAIN clients : HasText(clients[i].ClientID)
    /\ \A i, j \in DOMAIN clients : i # j => clients[i].ClientID # clients[j].ClientID

\* both files have been normalized
RowsReady == hpc \notin {"clients", "tx"}
\* the synonym tables of the handler that serves the request
ClaimClientTable == IF route = "ingest" THEN CLIENT_KEYMAP ELSE upload_CLIENT_KEYMAP
ClaimTxTable == IF route = "ingest" THEN TX_KEYMAP ELSE upload_TX_KEYMAP
\* the canonical name of a header: the table's entry for the header trimmed
\* and lower-cased, "" when there is none
ClaimCanon(k, keymap) == keymapGet(keymap, toLowerCase(trim(k)))
\* the value the row gives to the canonical field f: that of the last header
\* standing for f, trimmed when it is a string; Undef when no header stands for f
ClaimValue(row, keymap, f) ==
  LET at == {i \in DOMAIN row : ClaimCanon(row[i].k, keymap) = f}
  IN IF at = {} THEN Undef
     ELSE LET v == row[MaxOf(at)].v
          IN IF v.k = "str" THEN Str(trim(v.s)) ELSE v
\* the fields the handler itself assigns after normalizeRow
ClaimFallbackFields == IF route = "ingest" THEN {"ClientID", "Name", "Country"} ELSE {}
ClaimConvertedFields == IF route = "ingest" THEN {"Amount"} ELSE {}

\* C14: the record normalizeRow returns has exactly the canonical names of the
\* headers that, trimmed and lower-cased, are keys of the synonym table, every
\* other header being dropped, and every string value is trimmed (looked at
\* in the fields the handler does not assign afterwards).
C14_NormalizeRow ==
  RowsReady =>
    /\ \A i \in DOMAIN clients : \A f \in Fields \ ClaimFallbackFields :
         clients[i][f] = ClaimValue(clientsRaw[i], ClaimClientTable, f)
    /\ \A i \in DOMAIN tx : \A f \in Fields \ ClaimConvertedFields :
         tx[i][f] = ClaimValue(txRaw[i], ClaimTxTable, f)

\* a record written back as a row: one entry per field it carries, under the
\* canonical name of the field
RECURSIVE ClaimEntries(_, _)
ClaimEntries(rec, fields) ==
  IF fields = {} THEN <<>>
  ELSE LET f == CHOOSE g \in fields : TRUE
       IN (IF rec[f] = Undef THEN <<>> ELSE <<E(<<f>>, rec[f])>>)
          \o ClaimEntries(rec, fields \ {f})
ClaimAsRow(rec) == ClaimEntries(rec, Fields)
\* normalizeRow of the handler that serves the request
ClaimNormalize(row, keymap) ==
  IF route = "ingest" THEN normalizeRow(row, keymap) ELSE upload_normalizeRow(row, keymap)

\* C15: a normalized row, whose headers are the canonical names, is a fixed
\* point of normalizeRow for the client table and for the transaction table:
\* normalizing it again returns the same record, no field lost.
C15_NormalizeFixedPoint ==
  RowsReady =>
    /\ \A i \in DOMAIN clients :
         ClaimNormalize(ClaimAsRow(clients[i]), ClaimClientTable) = clients[i]
    /\ \A i \in DOMAIN tx :
         ClaimNormalize(ClaimAsRow(tx[i]), ClaimTxTable) = tx[i]

\* the zero-padded positional ids of the rows of a file, by position
ClaimPositionalIds == <<"C001", "C002", "C003", "C004", "C005">>
\* "missing or empty"
ClaimOr(v, fallback) == IF HasText(v) THEN v ELSE fallback

\* C16: the client at position i is its normalized row with the fallbacks
\* applied: a missing or empty ClientID is the zero-padded positional id of i,
\* a missing or empty Name is the (possibly synthesized) ClientID, a missing
\* or empty Country is "AU"; every field that was present is unchanged.
C16_FallbackDefaults ==
  ClientsReady =>
    \A i \in DOMAIN clients :
      LET n == ClaimNormalize(clientsRaw[i], ClaimClientTable)
          id == ClaimOr(n.ClientID, Text(ClaimPositionalIds[i]))
      IN /\ clients[i].ClientID = id
         /\ clients[i].Name = ClaimOr(n.Name, id)
         /\ clients[i].Country = ClaimOr(n.Country, Text("AU"))
         /\ \A f \in Fields \ {"ClientID", "Name", "Country"} : clients[i][f] = n[f]

\* the cases of one row of the scored table: one per detector that hits on the
\* row's transactions, structuring first, then corridors, then large domestic
ClaimCasesOf(row) ==
  LET t == txOf(by, row)
      one(hit, rule) == IF hit THEN <<[rule |-> rule, client |-> row.Name]>> ELSE <<>>
  IN one(detectStructuring(t, DateAt(now)).hit, "R_STRUCTURING")
     \o one(detectCorridors(t, DateAt(now)).hit, "R_HIGH_RISK_CORRIDORS")
     \o one(detectLargeDomestic(t, DateAt(now)).hit, "R_LARGE_DOMESTIC")
\* the cases of the first n rows of the scored table, row after row
RECURSIVE ClaimCasesUpTo(_)
ClaimCasesUpTo(n) ==
  IF n = 0 THEN <<>> ELSE ClaimCasesUpTo(n - 1) \o ClaimCasesOf(scored[n])
\* rule and client of the cases built so far
ClaimCaseHeads == [i \in DOMAIN cases |-> [rule |-> cases[i].rule, client |-> cases[i].client]]

\* C17: between two turns of the case loop, and when it is over, the case list
\* is the cases of the rows of the scored table handled so far, in table
\* order, each row giving exactly one case per detector that hits and none for
\* the others, in the order structuring, corridors, large domestic.
C17_CaseOrder ==
  route = "ingest" /\ hpc \in {"cases", "done"} =>
    ClaimCaseHeads = ClaimCasesUpTo(idx - 1)

\* a finished request whose table was reordered by the sort, whose first row
\* has a structuring case followed by its large-domestic case, and whose later
\* row has a case after them
C17_Witness ==
  /\ route = "ingest" /\ hpc = "done" /\ Len(cases) >= 3
  /\ scored[1].ClientID # clients[1].ClientID
  /\ cases[1].rule = "R_STRUCTURING" /\ cases[2].rule = "R_LARGE_DOMESTIC"
  /\ cases[1].client = scored[1].Name /\ cases[2].client = scored[1].Name
  /\ cases[3].client = scored[2].Name /\ scored[2].Name # scored[1].Name

\* the detector a step of the loop body runs, the rule of its case and the
\* text of its reason
ClaimRuleAt ==
  [cases |-> "R_STRUCTURING", case_hr |-> "R_HIGH_RISK_CORRIDORS", case_ld |-> "R_LARGE_DOMESTIC"]
ClaimReasonOf ==
  [R_STRUCTURING |-> "Structuring pattern: n+ near-threshold cash deposits (+15)",
   R_HIGH_RISK_CORRIDORS |-> "High-risk corridors: n intl to RU/CN/HK/AE/IN/IR (+12)",
   R_LARGE_DOMESTIC |-> "Large domestic transfer(s) >= 100,000 (+8)"]
\* the reasons of the row in the loop that are the reason of the rule
ClaimReasonsFor(rule) ==
  {i \in DOMAIN client.Reasons : client.Reasons[i].t = ClaimReasonOf[rule]}

\* C18: in the turn of a row of the scored table, a detector's step adds a
\* case if and only if the row's Reasons contain the reason of that detector;
\* it adds one case, of that rule and that client, and the evidence number of
\* the case (maxRun, corridor total) is the number of the reason.
C18_CaseIffReason ==
  [][ route = "ingest" /\ hpc = "in_case" /\ pc \in DOMAIN ClaimRuleAt =>
        LET new == SubSeq(cases', Len(cases) + 1, Len(cases'))
            rule == ClaimRuleAt[pc]
            why == ClaimReasonsFor(rule)
        IN /\ SubSeq(cases', 1, Len(cases)) = cases
           /\ Len(new) <= 1
           /\ (new # <<>>) <=> (why # {})
           /\ new # <<>> =>
                /\ new[1].rule = rule /\ new[1].client = client.Name
                /\ \A i \in why : client.Reasons[i].n = new[1].n
    ]_vars

\* the corridor step of a row has just added the case that restates the
\* reason's total, which is not the number of big transfers; the row has no
\* structuring reason and got no structuring case
C18_Witness ==
  /\ route = "ingest" /\ hpc = "in_case" /\ pc = "case_ld"
  /\ cases # <<>> /\ cases[Len(cases)].rule = "R_HIGH_RISK_CORRIDORS"
  /\ cases[Len(cases)].client = client.Name
  /\ cases[Len(cases)].n = hr.total /\ hr.total # hr.big
  /\ \E i \in ClaimReasonsFor("R_HIGH_RISK_CORRIDORS") : client.Reasons[i].n = hr.total
  /\ ClaimReasonsFor("R_STRUCTURING") = {} /\ ~s.hit

\* the table is final: sorted by the handler, not yet sent
ClaimTableSorted ==
  \/ route = "ingest" /\ hpc \in {"cases", "in_case", "done"}
  \/ route = "upload" /\ hpc = "done"
\* row j of the table stands for the client at position i of the file
ClaimRowOf(i, j) ==
  scored[j].ClientID = clients[i].ClientID /\ scored[j].Name = clients[i].Name
\* the ways of giving each client a row of its own
ClaimRowings ==
  {p \in [DOMAIN clients -> DOMAIN scored] :
     /\ \A i, k \in DOMAIN clients : i # k => p[i] # p[k]
     /\ \A i \in DOMAIN clients : ClaimRowOf(i, p[i])}

\* C19: the scored table of a batch has as many rows as the client file, one
\* for each client, and is ordered by Score descending: each row's Score is at
\* least the next row's.
C19_ScoredTable ==
  ClaimTableSorted =>
    /\ Len(scored) = Len(clientsRaw)
    /\ ClaimRowings # {}
    /\ \A j \in 1..(Len(scored) - 1) : scored[j].Score >= scored[j + 1].Score

\* a finished request of three clients with three different scores, the
\* highest of them last in the file
C19_Witness ==
  /\ hpc = "done" /\ Len(scored) = 3
  /\ scored[1].Score > scored[2].Score /\ scored[2].Score > scored[3].Score
  /\ scored[1].ClientID = clients[3].ClientID

\* C21: scoreClient and the detectors never raise, whatever strings and
\* numbers the fields of the client and of the transactions are: no run ends
\* in a raised error.
C21_NeverRaises == pc # "threw"

\* the date of the transaction is unparseable; its amount is not a number
ClaimBadDate(t) == ~parseDate(t.Date).ok
ClaimBadAmount(t) == toNum(t.Amount).k # "num"
ClaimDated == SelectSeq(txList, LAMBDA t : ~ClaimBadDate(t))
ClaimSound == SelectSeq(txList, LAMBDA t : ~ClaimBadDate(t) /\ ~ClaimBadAmount(t))

\* C22: malformed fields are handled by exclusion.  The results of the three
\* detectors are those of the list without the transactions whose date is
\* unparseable; structuring, the count of big corridor transfers and large
\* domestic are those of the list without the transactions whose date is
\* unparseable or whose amount is not a number.
C22_MalformedExcluded ==
  pc = "done" =>
    /\ s = detectStructuring(ClaimSound, DateAt(now))
    /\ hr = detectCorridors(ClaimDated, DateAt(now))
    /\ hr.big = detectCorridors(ClaimSound, DateAt(now)).big
    /\ ld = detectLargeDomestic(ClaimSound, DateAt(now))

\* the detectors have run on a list with a transaction without date and one
\* without amount; the latter is a corridor transfer, but not a big one, and
\* no detector hits
C22_Witness ==
  /\ pc = "done" /\ Len(txList) = 4
  /\ \E i \in DOMAIN txList : ClaimBadDate(txList[i]) /\ ~ClaimBadAmount(txList[i])
  /\ \E i \in DOMAIN txList : ClaimBadAmount(txList[i]) /\ ~ClaimBadDate(txList[i])
  /\ hr.total = 2 /\ hr.big = 0 /\ ~hr.hit /\ ~s.hit /\ ~ld.hit

\* the calendar month a date text names, and the month of the reference
\* instant where the process runs, both counted in months
ClaimWrittenMonth(t) == Digits[t.Date.s[1]][2] * 12 + (Digits[t.Date.s[3]][2] - 1)
ClaimReferenceMonth == getFullYear(DateAt(now)) * 12 + getMonth(DateAt(now))
ClaimMonthsBack(t) == ClaimReferenceMonth - ClaimWrittenMonth(t)

\* C23: monthsAgo of a transaction's date and the reference instant is the
\* difference of their calendar months, whatever the day of the month, and
\* infinite for an invalid date; the transaction is in the lookback window
\* exactly when the difference is at most 18, so on every day of the month 18
\* months before the reference month and on no day of the month before it.
C23_CalendarMonthWindow ==
  pc = "done" =>
    /\ \A i \in DOMAIN txList :
         monthsAgo(parseDate(txList[i].Date), DateAt(now)) =
           IF IsIsoDate(txList[i].Date.s) THEN Num(ClaimMonthsBack(txList[i])) ELSE Infinity
    /\ ld.count = Len(SelectSeq(txList, LAMBDA t :
                        IsIsoDate(t.Date.s) /\ ClaimMonthsBack(t) <= 18))

\* C24: whatever the list, the result of detectStructuring carries the longest
\* run and the number of qualifying deposits, the run no longer than the
\* number, and a hit has a run of at least 4.
C24_EvidenceAlways ==
  pc \in {"case_hr", "case_ld", "done"} =>
    /\ s.ev
    /\ s.maxRun <= s.count
    /\ s.hit => s.maxRun >= 4

\* C25: within a request the reference instant is taken once: after the first
\* client has been scored, no later client and no case is evaluated against
\* another instant.
C25_OneInstantPerBatch == [][scored # <<>> => now' = now]_vars

\* the table has all its rows and is about to be sorted
ClaimTableFull == hpc = "score" /\ idx > Len(clients)

\* C26: the calls have no effect on what they are given.  A step of
\* scoreClient or of a detector leaves the client record, the transaction
\* list, the normalized tables and the index as they are; groupByClient leaves
\* the transactions as they are; and a row that holds a returned score is not
\* changed while the later clients are scored.
C26_NoSideEffects ==
  [][ /\ hpc \in {"in_score", "in_case"} => UNCHANGED <<client, txList, clients, tx, by>>
      /\ hpc = "group" => tx' = tx
      /\ hpc \in {"score", "in_score"} /\ ~ClaimTableFull =>
           /\ Len(scored') >= Len(scored)
           /\ SubSeq(scored', 1, Len(scored)) = scored
    ]_vars

\* scoreClient has returned for the second client of a request, whose
\* transactions are not in date order and hold a structuring run, so the
\* detector sorted its copy; the first client's row is in the table
C26_Witness ==
  /\ hpc = "in_score" /\ pc = "scored" /\ idx = 2 /\ Len(scored) = 1
  /\ struct.hit
  /\ \E i \in 1..(Len(txList) - 1) :
       parseDate(txList[i].Date).t > parseDate(txList[i + 1].Date).t
  /\ txList = (IF route = "ingest" THEN txOf(by, client) ELSE upload_txOf(by, client))

====
